---- MODULE Spec2Model ----
(***************************************************************************)
(* A model of the zvault repository controller (src/repository/mod.rs,     *)
(* src/repository/vacuum.rs) and of the command layer that drives it       *)
(* (src/cli/mod.rs).                                                       *)
(*                                                                         *)
(* Persistent state: remote/bundles (remote), the local bundle cache       *)
(* (cache_disk), bundles.map (map_disk), the memory-mapped chunk index     *)
(* (index), the dirty flag and the lock files.  In-memory state: the       *)
(* fields of struct Repository.  A chunk is identified with its hash; a    *)
(* bundle content-id is the record of its mode and chunk list (the         *)
(* content hash of the bundle).                                            *)
(***************************************************************************)
EXTENDS Integers, Sequences, FiniteSets, TLC

\* ------------------------------------------------------------------ bounds
MaxHash == 2
MaxRemote == 2
MaxChunks == 4
MaxOps == 5
\* the number of zvault processes that run at the same time
MaxProcs == 2
\* the number of commands started in a run of the command line
MaxRuns == 3
\* the width of a bundle id in bits (u32 in the code, scaled down)
IdBits == 4
IdLimit == 2 ^ IdBits

Hashes == 1..MaxHash
Procs == 1..MaxProcs
Modes == {"Data", "Meta"}
\* config.bundle_size values, in chunks (every chunk has encoded size 1)
BundleSizes == {2, 5}
\* vacuum ratios, in halves: r stands for ratio r/2
Ratios == {0, 1, 2}

\* ------------------------------------------------------------------ state
VARIABLES
    st,                 \* "none" (no repository), "closed", "open", or a position inside vacuum
    bundle_size,        \* config.bundle_size
    remote,             \* remote/bundles: set of content-ids
    cache_disk,         \* bundles/: the persisted local cache of the Bundle DB
    map_disk,           \* bundles.map
    index,              \* the chunk index (memory-mapped file): hash -> Location
    dirty,              \* the dirty flag
    lock,               \* lock file of this process: "none" or "exclusive"
    other,              \* lock held by another process: "none", "shared", "exclusive"
    bundle_map,         \* Repository.bundle_map
    next_data_bundle,   \* Repository.next_data_bundle
    next_meta_bundle,   \* Repository.next_meta_bundle
    data_bundle,        \* Repository.data_bundle: chunks of the active writer, <<>> = None
    meta_bundle,        \* Repository.meta_bundle
    bundles,            \* Repository.bundles: content-ids known to the Bundle DB
    vac,                \* locals of a running vacuum
    op,                 \* the last operation and how it returned ("ok": create, put_chunk, drop)
    nops,               \* the number of operations called so far
    clean,              \* every operation so far has returned Ok
    flushed,            \* the index when the last operation that persists the state returned
    remote_link,        \* the symlink <repo>/remote: "none", "absolute" or "relative"
    backups,            \* remote/backups: backup name -> the saved backup
    proc                \* the zvault processes: the command each runs and where it stands

vars == <<st, bundle_size, remote, cache_disk, map_disk, index, dirty, lock, other,
          bundle_map, next_data_bundle, next_meta_bundle, data_bundle, meta_bundle,
          bundles, vac, op, nops, clean, flushed, remote_link, backups, proc>>

\* the state of the command line
cli_vars == <<remote_link, backups, proc>>

EmptyMap == [i \in {} |-> 0]

\* a process slot in which no command runs
IdleProc == [pc |-> "idle", cmd |-> "none", name |-> "none", run |-> "none",
             warned |-> FALSE, ran |-> {}, ret |-> "none", status |-> -1]
NoVac == [R |-> {}, todo |-> {}, usage |-> EmptyMap, inuse |-> {}, deleted |-> {}, args |-> {}]

\* the locals of a vacuum that has returned: the rewrite set, the hashes that were
\* in use when it began and the ids it deleted are kept for the postconditions.
\* args holds the parameters ratio and combine until the first step after the
\* rewrite set was computed
VacDone(v) == [v EXCEPT !.usage = EmptyMap, !.todo = {}, !.args = {}]

\* ------------------------------------------------------------------ helpers
Max(a, b) == IF a >= b THEN a ELSE b

Cid(mode, chunks) == [mode |-> mode, chunks |-> chunks]

\* BundleMap::set / remove / get
MapSet(bm, id, cid) == [i \in DOMAIN bm \cup {id} |-> IF i = id THEN cid ELSE bm[i]]
MapRemove(bm, id) == [i \in DOMAIN bm \ {id} |-> bm[i]]

\* Index::set / delete / filter
IndexSet(ix, h, loc) == [k \in DOMAIN ix \cup {h} |-> IF k = h THEN loc ELSE ix[k]]
IndexDelete(ix, h) == [k \in DOMAIN ix \ {h} |-> ix[k]]
IndexFilterBundle(ix, id) == [k \in {k \in DOMAIN ix : ix[k].bundle # id} |-> ix[k]]

Location(b, c) == [bundle |-> b, chunk |-> c]

\* the loop of next_free_bundle_id: while bundle_map.get(id).is_some() { id += 1 };
\* IdLimit is returned when id += 1 (or the + 1 before the loop) overflows
RECURSIVE scan_free(_, _)
scan_free(bm, id) ==
    IF id >= IdLimit THEN IdLimit
    ELSE IF id \in DOMAIN bm THEN scan_free(bm, id + 1)
    ELSE id

\* the arithmetic of next_free_bundle_id overflows the id type
next_free_overflows(bm, nd, nm) == scan_free(bm, Max(nd, nm) + 1) = IdLimit

\* mutant: the loop that skips the mapped ids is missing
next_free_bundle_id_no_scan(bm, nd, nm) == (Max(nd, nm) + 1) % IdLimit

\* mutant: the scan starts at 0 instead of above the watermarks
next_free_bundle_id_lowest(bm, nd, nm) == scan_free(bm, 0)

\* Repository::next_free_bundle_id, with wrapping arithmetic (a build without
\* overflow checks): after an overflow id is 0 and the loop goes on from there
next_free_bundle_id(bm, nd, nm) ==
    LET id == scan_free(bm, Max(nd, nm) + 1)
    IN  IF id = IdLimit THEN scan_free(bm, 0) ELSE id

\* Permutations of a finite set, as sequences (iteration orders of a Vec / HashSet)
RECURSIVE Perms(_)
Perms(S) == IF S = {} THEN {<<>>} ELSE UNION {{<<x>> \o p : p \in Perms(S \ {x})} : x \in S}

\* ------------------------------------------------------------------ the repository value
\* The Repository fields and the files its handlers write, as one record.
Repo ==
    [bm |-> bundle_map, nd |-> next_data_bundle, nm |-> next_meta_bundle,
     data |-> data_bundle, meta |-> meta_bundle, db |-> bundles,
     remote |-> remote, cache |-> cache_disk, mapd |-> map_disk, index |-> index,
     err |-> FALSE]

\* BundleDb::add_bundle: publish the finished writer to remote/bundles, learn it
add_bundle(r, cid) == [r EXCEPT !.remote = @ \cup {cid}, !.db = @ \cup {cid}]

\* mutant: the data watermark is incremented, whatever the meta watermark is
flush_data_increment(r) ==
    IF r.data = <<>> THEN r
    ELSE LET cid == Cid("Data", r.data)
             r1 == add_bundle(r, cid)
             bm1 == MapSet(r1.bm, r1.nd, cid)
         IN  [r1 EXCEPT !.data = <<>>, !.bm = bm1, !.nd = r1.nd + 1]

\* flush, the data writer (mod.rs 197-205)
flush_data(r) ==
    IF r.data = <<>> THEN r
    ELSE LET cid == Cid("Data", r.data)
             r1 == add_bundle(r, cid)
             bm1 == MapSet(r1.bm, r1.nd, cid)
         IN  [r1 EXCEPT !.data = <<>>, !.bm = bm1,
                        !.nd = next_free_bundle_id(bm1, r1.nd, r1.nm)]

\* mutant: the meta writer is registered under the watermark of the data mode
flush_meta_data_id(r) ==
    IF r.meta = <<>> THEN r
    ELSE LET cid == Cid("Meta", r.meta)
             r1 == add_bundle(r, cid)
             bm1 == MapSet(r1.bm, r1.nd, cid)
         IN  [r1 EXCEPT !.meta = <<>>, !.bm = bm1,
                        !.nm = next_free_bundle_id(bm1, r1.nd, r1.nm)]

\* mutant: finalizing the meta writer moves the data watermark as well
flush_meta_moves_data(r) ==
    IF r.meta = <<>> THEN r
    ELSE LET cid == Cid("Meta", r.meta)
             r1 == add_bundle(r, cid)
             bm1 == MapSet(r1.bm, r1.nm, cid)
             nm1 == next_free_bundle_id(bm1, r1.nd, r1.nm)
         IN  [r1 EXCEPT !.meta = <<>>, !.bm = bm1, !.nm = nm1,
                        !.nd = next_free_bundle_id(bm1, r1.nd, nm1)]

\* flush, the meta writer (mod.rs 206-214)
flush_meta(r) ==
    IF r.meta = <<>> THEN r
    ELSE LET cid == Cid("Meta", r.meta)
             r1 == add_bundle(r, cid)
             bm1 == MapSet(r1.bm, r1.nm, cid)
         IN  [r1 EXCEPT !.meta = <<>>, !.bm = bm1,
                        !.nm = next_free_bundle_id(bm1, r1.nd, r1.nm)]

\* Repository::save_bundle_map
save_bundle_map(r) == [r EXCEPT !.mapd = r.bm]

\* BundleDb::save_cache
save_cache(r) == [r EXCEPT !.cache = r.db]

\* Repository::flush
flush(r) == save_cache(save_bundle_map(flush_meta(flush_data(r))))

\* Repository::flush returning an error: add_bundle fails for the first active
\* writer, which mem::swap has already taken (1), save_bundle_map fails (2),
\* save_cache fails (3), add_bundle fails for the meta writer after the data
\* writer was published and registered (4)
flush_err(r, k) ==
    IF k = 1 THEN (IF r.data # <<>> THEN [r EXCEPT !.data = <<>>] ELSE [r EXCEPT !.meta = <<>>])
    ELSE IF k = 2 THEN flush_meta(flush_data(r))
    ELSE IF k = 3 THEN save_bundle_map(flush_meta(flush_data(r)))
    ELSE [flush_data(r) EXCEPT !.meta = <<>>]

\* Repository::put_chunk_override: append to the writer of the mode, record the
\* Location under the mode's watermark, finalize the writer at the size threshold
put_chunk_override(r, mode, h, bsz) ==
    IF mode = "Data"
    THEN LET r1 == [r EXCEPT !.data = Append(@, h),
                             !.index = IndexSet(@, h, Location(r.nd, Len(r.data)))]
         IN  IF Len(r1.data) >= bsz THEN flush_data(r1) ELSE r1
    ELSE LET r1 == [r EXCEPT !.meta = Append(@, h),
                             !.index = IndexSet(@, h, Location(r.nm, Len(r.meta)))]
         IN  IF Len(r1.meta) >= bsz THEN flush_meta(r1) ELSE r1

\* Repository::put_chunk: deduplicate against the index
put_chunk(r, mode, h, bsz) ==
    IF h \in DOMAIN r.index THEN r ELSE put_chunk_override(r, mode, h, bsz)

\* the index after inserting every chunk of a chunk list under bundle id (later wins)
RECURSIVE IndexSetAll(_, _, _, _)
IndexSetAll(ix, id, chunks, i) ==
    IF i >= Len(chunks) THEN ix
    ELSE IndexSetAll(IndexSet(ix, chunks[i + 1], Location(id, i)), id, chunks, i + 1)

\* Repository::add_new_remote_bundle
add_new_remote_bundle(r, cid) ==
    LET bundle_id == IF cid.mode = "Data" THEN r.nd ELSE r.nm
        bm1 == MapSet(r.bm, bundle_id, cid)
        nm1 == IF r.nm = bundle_id THEN next_free_bundle_id(bm1, r.nd, r.nm) ELSE r.nm
        nd1 == IF r.nd = bundle_id THEN next_free_bundle_id(bm1, r.nd, nm1) ELSE r.nd
    IN  [r EXCEPT !.bm = bm1, !.nm = nm1, !.nd = nd1,
                  !.index = IndexSetAll(r.index, bundle_id, cid.chunks, 0)]

\* BundleMap::find: an id bound to the content-id (any of them when several are)
find(bm, cid, pick) ==
    LET ids == {i \in DOMAIN bm : bm[i] = cid}
    IN  IF pick = "min" THEN CHOOSE i \in ids : \A j \in ids : i <= j
        ELSE CHOOSE i \in ids : \A j \in ids : i >= j

\* Repository::remove_gone_remote_bundle
remove_gone_remote_bundle(r, cid, pick) ==
    IF \E i \in DOMAIN r.bm : r.bm[i] = cid
    THEN LET id == find(r.bm, cid, pick)
         IN  [r EXCEPT !.db = @ \ {cid}, !.cache = @ \ {cid},
                       !.index = IndexFilterBundle(@, id),
                       !.bm = MapRemove(@, id)]
    ELSE r

RECURSIVE AddNew(_, _, _)
AddNew(r, new, i) ==
    IF i > Len(new) THEN r ELSE AddNew(add_new_remote_bundle(r, new[i]), new, i + 1)

RECURSIVE RemoveGone(_, _, _, _)
RemoveGone(r, gone, i, pick) ==
    IF i > Len(gone) THEN r
    ELSE RemoveGone(remove_gone_remote_bundle(r, gone[i], pick), gone, i + 1, pick)

\* BundleDb::open: the bundles in remote the cache does not know, and the cached
\* bundles that have disappeared from remote
NewBundles == remote \ cache_disk
GoneBundles == cache_disk \ remote

\* mutant: the second watermark is computed before the first one is stored, so
\* both get the same id
open_same_watermark(new, gone, pick) ==
    LET r0 == [Repo EXCEPT !.bm = map_disk, !.nd = 0, !.nm = 0, !.data = <<>>,
                           !.meta = <<>>, !.db = cache_disk \cup remote]
        r1 == RemoveGone(AddNew(r0, new, 1), gone, 1, pick)
        r2 == save_bundle_map(r1)
        nm1 == next_free_bundle_id(r2.bm, r2.nd, r2.nm)
        nd1 == next_free_bundle_id(r2.bm, r2.nd, r2.nm)
    IN  [r2 EXCEPT !.nm = nm1, !.nd = nd1]

\* Repository::open, from the loaded files to the returned value
open(new, gone, pick) ==
    LET r0 == [Repo EXCEPT !.bm = map_disk, !.nd = 0, !.nm = 0, !.data = <<>>,
                           !.meta = <<>>, !.db = cache_disk \cup remote]
        r1 == RemoveGone(AddNew(r0, new, 1), gone, 1, pick)
        r2 == save_bundle_map(r1)
        nm1 == next_free_bundle_id(r2.bm, r2.nd, r2.nm)
        nd1 == next_free_bundle_id(r2.bm, r2.nd, nm1)
    IN  [r2 EXCEPT !.nm = nm1, !.nd = nd1]

\* add_new_remote_bundle returning an error from index.set (mod.rs 235): the
\* bundle is in the map and the watermarks have moved, the index has no entry yet
add_new_remote_bundle_err(r, cid) ==
    [add_new_remote_bundle(r, cid) EXCEPT !.index = r.index]

\* Repository::open returning an error, the value that is dropped: j bundles of
\* new, then of gone, were handled before the failing one; half: the failing call
\* is add_new_remote_bundle and it fails after bundle_map.set
open_err(new, gone, pick, j, half) ==
    LET r0 == [Repo EXCEPT !.bm = map_disk, !.nd = 0, !.nm = 0, !.data = <<>>,
                           !.meta = <<>>, !.db = cache_disk \cup remote]
    IN  IF j < Len(new)
        THEN LET r1 == AddNew(r0, SubSeq(new, 1, j), 1)
             IN  IF half THEN add_new_remote_bundle_err(r1, new[j + 1]) ELSE r1
        ELSE RemoveGone(AddNew(r0, new, 1), SubSeq(gone, 1, j - Len(new)), 1, pick)

\* Repository::rebuild_index
RECURSIVE RebuildFrom(_, _, _)
RebuildFrom(ix, bm, ids) ==
    IF ids = <<>> THEN ix
    ELSE RebuildFrom(IndexSetAll(ix, Head(ids), bm[Head(ids)].chunks, 0), bm, Tail(ids))

\* mutant: the index is not cleared before the bundles are reinserted
rebuild_index_no_clear(r, order) == [r EXCEPT !.index = RebuildFrom(r.index, r.bm, order)]

rebuild_index(r, order) == [r EXCEPT !.index = RebuildFrom(EmptyMap, r.bm, order)]

\* write the record back to the variables
Install(r) ==
    /\ bundle_map' = r.bm
    /\ next_data_bundle' = r.nd
    /\ next_meta_bundle' = r.nm
    /\ data_bundle' = r.data
    /\ meta_bundle' = r.meta
    /\ bundles' = r.db
    /\ remote' = r.remote
    /\ cache_disk' = r.cache
    /\ map_disk' = r.mapd
    /\ index' = r.index

\* the Repository value is gone (dropped, or the process has ended)
Forget(r) == Install([r EXCEPT !.bm = EmptyMap, !.nd = 0, !.nm = 0, !.data = <<>>,
                               !.meta = <<>>, !.db = {}])

\* the bound on the length of a writer
InBound(r) == Len(r.data) <= MaxChunks /\ Len(r.meta) <= MaxChunks

\* an operation is called: the bound on the length of a run
Count == nops < MaxOps /\ nops' = nops + 1

\* the bundles another machine may publish to remote/bundles
ExtBundles == {Cid(m, <<h>>) : m \in Modes, h \in Hashes}


\* ------------------------------------------------------------------ reading chunks
\* BundleDb::get_chunk through the Bundle Map: the hash of the chunk stored at a
\* Location, 0 when the Location resolves to no stored chunk
ChunkAt(bm, rem, loc) ==
    IF /\ loc.bundle \in DOMAIN bm
       /\ bm[loc.bundle] \in rem
       /\ loc.chunk < Len(bm[loc.bundle].chunks)
    THEN bm[loc.bundle].chunks[loc.chunk + 1]
    ELSE 0

\* ------------------------------------------------------------------ vacuum
\* Repository::analyze_usage: a chunk is in use iff the index maps its hash to this
\* bundle at this position
analyze_usage(r) ==
    [id \in DOMAIN r.bm |->
        [info |-> r.bm[id],
         used |-> {i \in 0..(Len(r.bm[id].chunks) - 1) :
                      LET h == r.bm[id].chunks[i + 1]
                      IN  h \in DOMAIN r.index /\ r.index[h] = Location(id, i)}]]

\* BundleAnalysis::get_usage_ratio() <= ratio, the ratio given in halves
usage_ratio_le(u, ratio) == 2 * Cardinality(u.used) <= ratio * Len(u.info.chunks)

\* mutant: a bundle counts as small below an eighth of the bundle size
small_bundles_eighth(usage, mode, bsz) ==
    {id \in DOMAIN usage :
        Len(usage[id].info.chunks) * 8 < bsz /\ usage[id].info.mode = mode}

\* the small bundles of a mode (vacuum.rs 52-59)
small_bundles(usage, mode, bsz) ==
    {id \in DOMAIN usage :
        Len(usage[id].info.chunks) * 4 < bsz /\ usage[id].info.mode = mode}

\* mutant: the small bundles of both modes are counted together
rewrite_bundles_joint(usage, ratio, combine, bsz) ==
    LET by_ratio == {id \in DOMAIN usage : usage_ratio_le(usage[id], ratio)}
        small == small_bundles(usage, "Meta", bsz) \cup small_bundles(usage, "Data", bsz)
    IN  by_ratio \cup (IF combine /\ Cardinality(small) >= 2 THEN small ELSE {})

\* the rewrite set (vacuum.rs 41-70)
rewrite_bundles(usage, ratio, combine, bsz) ==
    LET by_ratio == {id \in DOMAIN usage : usage_ratio_le(usage[id], ratio)}
        small_meta == small_bundles(usage, "Meta", bsz)
        small_data == small_bundles(usage, "Data", bsz)
    IN  by_ratio
        \cup (IF combine /\ Cardinality(small_meta) >= 2 THEN small_meta ELSE {})
        \cup (IF combine /\ Cardinality(small_data) >= 2 THEN small_data ELSE {})

\* mutant: the chunk in use is written with put_chunk, which skips an indexed hash
rewrite_chunk_dedup(r, bundle_id, hash, used, mode, bsz) ==
    IF ~used THEN [r EXCEPT !.index = IndexDelete(@, hash)]
    ELSE IF bundle_id \notin r.remote THEN [r EXCEPT !.err = TRUE]
    ELSE put_chunk(r, mode, hash, bsz)

\* the body of the inner loop of the rewrite (vacuum.rs 91-96); used: the bit of
\* the chunk in chunk_usage
rewrite_chunk(r, bundle_id, hash, used, mode, bsz) ==
    IF ~used THEN [r EXCEPT !.index = IndexDelete(@, hash)]
    ELSE IF bundle_id \notin r.remote THEN [r EXCEPT !.err = TRUE]
    ELSE put_chunk_override(r, mode, hash, bsz)

\* the inner loop of the rewrite (vacuum.rs 90-97), from chunk i on
RECURSIVE rewrite_chunks(_, _, _, _, _, _, _)
rewrite_chunks(r, bundle_id, chunks, i, u, mode, bsz) ==
    IF i >= Len(chunks) \/ r.err THEN r
    ELSE rewrite_chunks(rewrite_chunk(r, bundle_id, chunks[i + 1], i \in u.used, mode, bsz),
                        bundle_id, chunks, i + 1, u, mode, bsz)

\* one iteration of the rewrite loop (vacuum.rs 86-97)
rewrite_bundle(r, id, u, bsz) ==
    LET bundle_id == r.bm[id]
    IN  IF bundle_id \notin r.db THEN [r EXCEPT !.err = TRUE]
        ELSE rewrite_chunks(r, bundle_id, bundle_id.chunks, 0, u, u.info.mode, bsz)

\* mutant: the check after the rewrite finds nothing
index_references_skipped(ix, R) == FALSE

\* the check after the rewrite (vacuum.rs 101-110)
index_references(ix, R) == \E h \in DOMAIN ix : ix[h].bundle \in R

\* Repository::delete_bundle, the bundle map and the Bundle DB
delete_bundle(r, id) ==
    LET cid == r.bm[id]
    IN  [r EXCEPT !.bm = MapRemove(@, id), !.remote = @ \ {cid}, !.db = @ \ {cid},
                  !.cache = @ \ {cid}]

\* the hashes the index maps to a chunk that is stored there
InUse(r) == {h \in DOMAIN r.index : ChunkAt(r.bm, r.remote, r.index[h]) = h}


\* ------------------------------------------------------------------ initial state
Init ==
    /\ st = "none"
    /\ bundle_size = 0
    /\ remote = {}
    /\ cache_disk = {}
    /\ map_disk = EmptyMap
    /\ index = EmptyMap
    /\ dirty = FALSE
    /\ lock = "none"
    /\ other = "none"
    /\ bundle_map = EmptyMap
    /\ next_data_bundle = 0
    /\ next_meta_bundle = 0
    /\ data_bundle = <<>>
    /\ meta_bundle = <<>>
    /\ bundles = {}
    /\ vac = NoVac
    /\ op = "init"
    /\ nops = 0
    /\ clean = TRUE
    /\ flushed = EmptyMap
    /\ remote_link = "none"
    /\ backups = EmptyMap
    /\ proc = [p \in Procs |-> IdleProc]

\* ------------------------------------------------------------------ operations
\* mutant: the initial watermarks are swapped
CreateDataZero(bsz) ==
    /\ st = "none"
    /\ st' = "open"
    /\ bundle_size' = bsz
    /\ Install([Repo EXCEPT !.nd = 0, !.nm = 1])
    /\ op' = "ok"
    /\ UNCHANGED <<dirty, lock, other, vac>>
    /\ Count
    /\ clean' = clean
    /\ flushed' = index'
    /\ UNCHANGED cli_vars

\* Repository::create (mod.rs 56-95)
Create(bsz) ==
    /\ st = "none"
    /\ st' = "open"
    /\ bundle_size' = bsz
    /\ Install([Repo EXCEPT !.nd = 1, !.nm = 0])
    /\ op' = "ok"
    /\ UNCHANGED <<dirty, lock, other, vac>>
    /\ Count
    /\ clean' = clean
    /\ flushed' = index'
    /\ UNCHANGED cli_vars

\* Repository::open (mod.rs 97-136)
Open ==
    /\ st = "closed"
    /\ Count
    /\ \E new \in Perms(NewBundles), gone \in Perms(GoneBundles), pick \in {"min", "max"} :
          LET r == open(new, gone, pick)
          IN  InBound(r) /\ Install(r)
    /\ st' = "open"
    /\ op' = "open"
    /\ vac' = NoVac
    /\ UNCHANGED <<bundle_size, dirty, lock, other>>
    /\ clean' = clean
    /\ flushed' = index'
    /\ UNCHANGED cli_vars

\* Repository::open returns an error from one of its loops (mod.rs 126-131); the
\* value repo is dropped, and its drop calls flush (mod.rs 267-271)
OpenErr ==
    /\ st = "closed"
    /\ Count
    /\ \E new \in Perms(NewBundles), gone \in Perms(GoneBundles), pick \in {"min", "max"},
          half \in BOOLEAN :
          \E j \in 0..(Len(new) + Len(gone) - 1) :
             LET r == flush(open_err(new, gone, pick, j, half))
             IN  (half => j < Len(new)) /\ InBound(r) /\ Forget(r)
    /\ st' = "closed"
    /\ op' = "open_err"
    /\ vac' = NoVac
    /\ UNCHANGED <<bundle_size, dirty, lock, other>>
    /\ clean' = FALSE
    /\ flushed' = index'
    /\ UNCHANGED cli_vars

\* Repository::put_chunk
PutChunk(mode, h) ==
    /\ st = "open"
    /\ LET r == put_chunk(Repo, mode, h, bundle_size)
       IN  InBound(r) /\ Install(r)
    /\ op' = "ok"
    /\ vac' = NoVac
    /\ UNCHANGED <<st, bundle_size, dirty, lock, other>>
    /\ Count
    /\ clean' = clean
    /\ flushed' = flushed
    /\ UNCHANGED cli_vars

\* Repository::flush (mod.rs 196-218)
Flush ==
    /\ st = "open"
    /\ LET r == flush(Repo)
       IN  InBound(r) /\ Install(r)
    /\ op' = "flush"
    /\ vac' = NoVac
    /\ UNCHANGED <<st, bundle_size, dirty, lock, other>>
    /\ Count
    /\ clean' = clean
    /\ flushed' = index'
    /\ UNCHANGED cli_vars

\* Repository::flush returns an error (mod.rs 196-218), the repository stays open;
\* k as in flush_err
FlushErr(k) ==
    /\ st = "open"
    /\ k = 1 => (data_bundle # <<>> \/ meta_bundle # <<>>)
    /\ k = 4 => (data_bundle # <<>> /\ meta_bundle # <<>>)
    /\ LET r == flush_err(Repo, k)
       IN  InBound(r) /\ Install(r)
    /\ op' = (IF k \in {1, 4} THEN "flush_add_err" ELSE "flush_err")
    /\ vac' = NoVac
    /\ UNCHANGED <<st, bundle_size, dirty, lock, other>>
    /\ Count
    /\ clean' = FALSE
    /\ flushed' = flushed
    /\ UNCHANGED cli_vars

\* Repository::rebuild_index (mod.rs 240-249)
RebuildIndex ==
    /\ st = "open"
    /\ \A id \in DOMAIN bundle_map : bundle_map[id] \in bundles
    /\ \E order \in Perms(DOMAIN bundle_map) : Install(rebuild_index(Repo, order))
    /\ op' = "rebuild"
    /\ vac' = NoVac
    /\ UNCHANGED <<st, bundle_size, dirty, lock, other>>
    /\ Count
    /\ clean' = clean
    /\ flushed' = flushed
    /\ UNCHANGED cli_vars

\* impl Drop for Repository (mod.rs 267-271): the value goes out of scope
Close ==
    /\ st = "open"
    /\ LET r == flush(Repo)
       IN  InBound(r) /\ Forget(r)
    /\ st' = "closed"
    /\ op' = "ok"
    /\ vac' = NoVac
    /\ UNCHANGED <<bundle_size, dirty, lock, other>>
    /\ UNCHANGED nops
    /\ clean' = clean
    /\ flushed' = index'
    /\ UNCHANGED cli_vars

\* a mutation returns an error before flush and the command returns
\* (cli/mod.rs 579-582): the Repository value is dropped
Abort ==
    /\ st = "open"
    /\ data_bundle # <<>> \/ meta_bundle # <<>>
    /\ LET r == flush(Repo)
       IN  InBound(r) /\ Forget(r)
    /\ st' = "closed"
    /\ op' = "abort"
    /\ vac' = NoVac
    /\ UNCHANGED <<bundle_size, dirty, lock, other>>
    /\ UNCHANGED nops
    /\ clean' = FALSE
    /\ flushed' = index'
    /\ UNCHANGED cli_vars

\* the process is killed: the memory is lost, the files and the lock file stay
Crash ==
    /\ st \notin {"none", "closed"}
    /\ Forget(Repo)
    /\ st' = "closed"
    /\ op' = "crash"
    /\ vac' = NoVac
    /\ UNCHANGED <<bundle_size, dirty, lock, other>>
    /\ UNCHANGED nops
    /\ clean' = FALSE
    /\ flushed' = flushed
    /\ UNCHANGED cli_vars

\* the process is killed inside flush: after the data writer was published (1),
\* after both writers were published (2), after bundles.map was saved (3)
FlushCrash(k) ==
    /\ st = "open"
    /\ data_bundle # <<>> \/ meta_bundle # <<>>
    /\ LET r1 == flush_data(Repo)
           r2 == flush_meta(r1)
           r == IF k = 1 THEN r1 ELSE IF k = 2 THEN r2 ELSE save_bundle_map(r2)
       IN  InBound(r) /\ Forget(r)
    /\ st' = "closed"
    /\ op' = "crash"
    /\ vac' = NoVac
    /\ UNCHANGED <<bundle_size, dirty, lock, other>>
    /\ UNCHANGED nops
    /\ clean' = FALSE
    /\ flushed' = flushed
    /\ UNCHANGED cli_vars

\* ------------------------------------------------------------------ environment
\* another machine publishes a bundle to the shared remote
EnvAddRemote(cid) ==
    /\ st = "closed"
    /\ Count
    /\ cid \notin remote
    /\ Cardinality(remote) < MaxRemote
    /\ remote' = remote \cup {cid}
    /\ op' = "env"
    /\ UNCHANGED <<st, bundle_size, cache_disk, map_disk, index, dirty, lock, other,
                   bundle_map, next_data_bundle, next_meta_bundle, data_bundle,
                   meta_bundle, bundles, vac, clean, flushed>>
    /\ UNCHANGED cli_vars

\* a bundle file disappears from the remote
EnvDelRemote(cid) ==
    /\ st = "closed"
    /\ Count
    /\ cid \in remote
    /\ remote' = remote \ {cid}
    /\ op' = "env"
    /\ UNCHANGED <<st, bundle_size, cache_disk, map_disk, index, dirty, lock, other,
                   bundle_map, next_data_bundle, next_meta_bundle, data_bundle,
                   meta_bundle, bundles, vac, clean, flushed>>
    /\ UNCHANGED cli_vars

\* LockFolder::lock by another process: refused while an incompatible lock exists
OtherLock(kind) ==
    /\ st = "open"
    /\ Count
    /\ other = "none"
    /\ lock = "none"
    /\ other' = kind
    /\ op' = "env"
    /\ UNCHANGED <<st, bundle_size, remote, cache_disk, map_disk, index, dirty, lock,
                   bundle_map, next_data_bundle, next_meta_bundle, data_bundle,
                   meta_bundle, bundles, vac, clean, flushed>>
    /\ UNCHANGED cli_vars

OtherUnlock ==
    /\ other # "none"
    /\ other' = "none"
    /\ op' = "env"
    /\ UNCHANGED <<st, bundle_size, remote, cache_disk, map_disk, index, dirty, lock,
                   bundle_map, next_data_bundle, next_meta_bundle, data_bundle,
                   meta_bundle, bundles, vac, nops, clean, flushed>>
    /\ UNCHANGED cli_vars

\* the operator clears the lock file a killed process left behind
ClearStaleLock ==
    /\ st = "closed"
    /\ lock # "none"
    /\ lock' = "none"
    /\ op' = "env"
    /\ UNCHANGED <<st, bundle_size, remote, cache_disk, map_disk, index, dirty, other,
                   bundle_map, next_data_bundle, next_meta_bundle, data_bundle,
                   meta_bundle, bundles, vac, nops, clean, flushed>>
    /\ UNCHANGED cli_vars


\* ------------------------------------------------------------------ vacuum, step by step
\* LockFolder::lock(exclusive = true) is refused
LockBusy == other # "none" \/ lock # "none"

\* the lock file after the LockHandle is dropped: it is removed
LockAfterScope(l) == "none"

\* mutant: the usage is analyzed, and the dirty flag set, before the lock is taken
VacuumLockBusyAnalyzesFirst ==
    /\ st = "open"
    /\ LockBusy
    /\ LET r == flush(Repo)
       IN  InBound(r) /\ Install(r)
    /\ dirty' = TRUE
    /\ op' = "vacuum_lock_busy"
    /\ vac' = NoVac
    /\ UNCHANGED <<st, bundle_size, lock, other>>
    /\ Count
    /\ clean' = FALSE
    /\ flushed' = index'
    /\ UNCHANGED cli_vars

\* vacuum.rs 22-25: flush, then the lock is refused and vacuum returns the error
VacuumLockBusy ==
    /\ st = "open"
    /\ LockBusy
    /\ LET r == flush(Repo)
       IN  InBound(r) /\ Install(r)
    /\ dirty' = dirty
    /\ op' = "vacuum_lock_busy"
    /\ vac' = NoVac
    /\ UNCHANGED <<st, bundle_size, lock, other>>
    /\ Count
    /\ clean' = FALSE
    /\ flushed' = index'
    /\ UNCHANGED cli_vars

\* vacuum.rs 22-28: analyze_usage sets the dirty flag and fails
VacuumAnalyzeErr ==
    /\ st = "open"
    /\ ~LockBusy
    /\ LET r == flush(Repo)
       IN  InBound(r) /\ Install(r)
    /\ dirty' = TRUE
    /\ lock' = LockAfterScope("exclusive")
    /\ op' = "vacuum_err"
    /\ vac' = NoVac
    /\ UNCHANGED <<st, bundle_size, other>>
    /\ Count
    /\ clean' = FALSE
    /\ flushed' = index'
    /\ UNCHANGED cli_vars

\* mutant: force = false returns without clearing the flag analyze_usage has set
VacuumDryRunKeepsDirty(ratio, combine) ==
    /\ st = "open"
    /\ ~LockBusy
    /\ LET r == flush(Repo)
       IN  /\ InBound(r)
           /\ \A id \in DOMAIN r.bm : r.bm[id] \in r.db
           /\ Install(r)
           /\ vac' = [NoVac EXCEPT !.R = rewrite_bundles(analyze_usage(r), ratio, combine,
                                                         bundle_size),
                                   !.usage = analyze_usage(r),
                                   !.args = {[ratio |-> ratio, combine |-> combine]}]
    /\ dirty' = TRUE
    /\ lock' = LockAfterScope("exclusive")
    /\ op' = "vacuum_dry"
    /\ UNCHANGED <<st, bundle_size, other>>
    /\ Count
    /\ clean' = clean
    /\ flushed' = index'
    /\ UNCHANGED cli_vars

\* vacuum.rs 22-79 with force = false
VacuumDryRun(ratio, combine) ==
    /\ st = "open"
    /\ ~LockBusy
    /\ LET r == flush(Repo)
       IN  /\ InBound(r)
           /\ \A id \in DOMAIN r.bm : r.bm[id] \in r.db
           /\ Install(r)
           /\ vac' = [NoVac EXCEPT !.R = rewrite_bundles(analyze_usage(r), ratio, combine,
                                                         bundle_size),
                                   !.usage = analyze_usage(r),
                                   !.args = {[ratio |-> ratio, combine |-> combine]}]
    /\ dirty' = FALSE
    /\ lock' = LockAfterScope("exclusive")
    /\ op' = "vacuum_dry"
    /\ UNCHANGED <<st, bundle_size, other>>
    /\ Count
    /\ clean' = clean
    /\ flushed' = index'
    /\ UNCHANGED cli_vars

\* vacuum.rs 22-79 with force = true: up to the start of the rewrite loop
VacuumStart(ratio, combine) ==
    /\ st = "open"
    /\ ~LockBusy
    /\ LET r == flush(Repo)
           R == rewrite_bundles(analyze_usage(r), ratio, combine, bundle_size)
       IN  /\ InBound(r)
           /\ \A id \in DOMAIN r.bm : r.bm[id] \in r.db
           /\ Install(r)
           /\ vac' = [R |-> R, todo |-> R, usage |-> analyze_usage(r),
                      inuse |-> InUse(r), deleted |-> {},
                      args |-> {[ratio |-> ratio, combine |-> combine]}]
    /\ dirty' = TRUE
    /\ lock' = "exclusive"
    /\ st' = "vac_rewrite"
    /\ op' = "vacuum"
    /\ UNCHANGED <<bundle_size, other>>
    /\ Count
    /\ clean' = clean
    /\ flushed' = index'
    /\ UNCHANGED cli_vars

\* vacuum.rs 86-97: one bundle of the rewrite set is rewritten
VacuumRewrite(id) ==
    /\ st = "vac_rewrite"
    /\ id \in vac.todo
    /\ id \in DOMAIN bundle_map
    /\ LET r == rewrite_bundle(Repo, id, vac.usage[id], bundle_size)
       IN  /\ ~r.err
           /\ InBound(r)
           /\ Install(r)
    /\ vac' = [vac EXCEPT !.todo = @ \ {id}, !.args = {}]
    /\ UNCHANGED <<st, bundle_size, dirty, lock, other, op, nops>>
    /\ clean' = clean
    /\ flushed' = flushed
    /\ UNCHANGED cli_vars

\* vacuum.rs 88, 95: reading the bundle fails, vacuum returns the error
VacuumRewriteErr(id) ==
    /\ st = "vac_rewrite"
    /\ id \in vac.todo
    /\ id \in DOMAIN bundle_map
    /\ LET r == rewrite_bundle(Repo, id, vac.usage[id], bundle_size)
       IN  \/ r.err /\ InBound(r) /\ Install(r)
           \/ Install(Repo)
    /\ lock' = LockAfterScope(lock)
    /\ st' = "open"
    /\ op' = "vacuum_err"
    /\ vac' = VacDone(vac)
    /\ UNCHANGED <<bundle_size, dirty, other>>
    /\ UNCHANGED nops
    /\ clean' = FALSE
    /\ flushed' = flushed
    /\ UNCHANGED cli_vars

\* mutant: the second flush is left out, the index is checked and the deletion begins
VacuumCheckWithoutFlush ==
    /\ st = "vac_rewrite"
    /\ vac.todo = {}
    /\ LET r == Repo
       IN  /\ InBound(r)
           /\ ~index_references(r.index, vac.R)
           /\ Install(r)
    /\ st' = "vac_delete"
    /\ vac' = [vac EXCEPT !.todo = vac.R, !.args = {}]
    /\ UNCHANGED <<bundle_size, dirty, lock, other, op, nops>>
    /\ clean' = clean
    /\ flushed' = index'
    /\ UNCHANGED cli_vars

\* vacuum.rs 99-110: the second flush, and the index check passes
VacuumCheckOk ==
    /\ st = "vac_rewrite"
    /\ vac.todo = {}
    /\ LET r == flush(Repo)
       IN  /\ InBound(r)
           /\ ~index_references(r.index, vac.R)
           /\ Install(r)
    /\ st' = "vac_delete"
    /\ vac' = [vac EXCEPT !.todo = vac.R, !.args = {}]
    /\ UNCHANGED <<bundle_size, dirty, lock, other, op, nops>>
    /\ clean' = clean
    /\ flushed' = index'
    /\ UNCHANGED cli_vars

\* vacuum.rs 99: the second flush fails, vacuum returns the error
VacuumFlushErr(k) ==
    /\ st = "vac_rewrite"
    /\ vac.todo = {}
    /\ k = 1 => (data_bundle # <<>> \/ meta_bundle # <<>>)
    /\ k = 4 => (data_bundle # <<>> /\ meta_bundle # <<>>)
    /\ LET r == flush_err(Repo, k)
       IN  InBound(r) /\ Install(r)
    /\ lock' = LockAfterScope(lock)
    /\ st' = "open"
    /\ op' = "vacuum_err"
    /\ vac' = VacDone(vac)
    /\ UNCHANGED <<bundle_size, dirty, other>>
    /\ UNCHANGED nops
    /\ clean' = FALSE
    /\ flushed' = flushed
    /\ UNCHANGED cli_vars

\* vacuum.rs 99-110: the index check panics; unwinding drops _lock and then the
\* Repository value (mod.rs 267-271)
VacuumPanic ==
    /\ st = "vac_rewrite"
    /\ vac.todo = {}
    /\ LET r == flush(Repo)
       IN  /\ InBound(r)
           /\ index_references(r.index, vac.R)
           /\ Forget(r)
    /\ lock' = LockAfterScope(lock)
    /\ st' = "closed"
    /\ op' = "vacuum_panic"
    /\ vac' = VacDone(vac)
    /\ UNCHANGED <<bundle_size, dirty, other>>
    /\ UNCHANGED nops
    /\ clean' = FALSE
    /\ flushed' = index'
    /\ UNCHANGED cli_vars

\* vacuum.rs 112-114: one bundle of the rewrite set is deleted
VacuumDelete(id) ==
    /\ st = "vac_delete"
    /\ id \in vac.todo
    /\ id \in DOMAIN bundle_map
    /\ bundle_map[id] \in bundles
    /\ Install(delete_bundle(Repo, id))
    /\ vac' = [vac EXCEPT !.todo = @ \ {id}, !.deleted = @ \cup {id}]
    /\ UNCHANGED <<st, bundle_size, dirty, lock, other, op, nops>>
    /\ clean' = clean
    /\ flushed' = flushed
    /\ UNCHANGED cli_vars

\* mutant: the error path of the delete loop clears the dirty flag
VacuumDeleteErrClearsDirty(id) ==
    /\ st = "vac_delete"
    /\ id \in vac.todo
    /\ Install([Repo EXCEPT !.bm = MapRemove(@, id)])
    /\ lock' = LockAfterScope(lock)
    /\ st' = "open"
    /\ op' = "vacuum_err"
    /\ vac' = VacDone(vac)
    /\ dirty' = FALSE
    /\ UNCHANGED <<bundle_size, other>>
    /\ UNCHANGED nops
    /\ clean' = FALSE
    /\ flushed' = flushed
    /\ UNCHANGED cli_vars

\* vacuum.rs 7-14, 113: delete_bundle fails (the id is not mapped, or the Bundle DB
\* cannot delete the bundle), vacuum returns the error
VacuumDeleteErr(id) ==
    /\ st = "vac_delete"
    /\ id \in vac.todo
    /\ Install([Repo EXCEPT !.bm = MapRemove(@, id)])
    /\ lock' = LockAfterScope(lock)
    /\ st' = "open"
    /\ op' = "vacuum_err"
    /\ vac' = VacDone(vac)
    /\ UNCHANGED <<bundle_size, dirty, other>>
    /\ UNCHANGED nops
    /\ clean' = FALSE
    /\ flushed' = flushed
    /\ UNCHANGED cli_vars

\* vacuum.rs 115: save_bundle_map fails, vacuum returns the error
VacuumSaveErr ==
    /\ st = "vac_delete"
    /\ vac.todo = {}
    /\ Install(Repo)
    /\ lock' = LockAfterScope(lock)
    /\ st' = "open"
    /\ op' = "vacuum_err"
    /\ vac' = VacDone(vac)
    /\ UNCHANGED <<bundle_size, dirty, other>>
    /\ UNCHANGED nops
    /\ clean' = FALSE
    /\ flushed' = flushed
    /\ UNCHANGED cli_vars

\* mutant: the lock handle is kept in the Repository value instead of a local of
\* vacuum, so the lock file outlives the call
VacuumFinishKeepsLock ==
    /\ st = "vac_delete"
    /\ vac.todo = {}
    /\ Install(save_bundle_map(Repo))
    /\ dirty' = FALSE
    /\ lock' = lock
    /\ st' = "open"
    /\ op' = "vacuum_ok"
    /\ vac' = VacDone(vac)
    /\ UNCHANGED <<bundle_size, other>>
    /\ UNCHANGED nops
    /\ clean' = clean
    /\ flushed' = index'
    /\ UNCHANGED cli_vars

\* vacuum.rs 115-118: the map is saved, the flag cleared, _lock goes out of scope
VacuumFinish ==
    /\ st = "vac_delete"
    /\ vac.todo = {}
    /\ Install(save_bundle_map(Repo))
    /\ dirty' = FALSE
    /\ lock' = LockAfterScope(lock)
    /\ st' = "open"
    /\ op' = "vacuum_ok"
    /\ vac' = VacDone(vac)
    /\ UNCHANGED <<bundle_size, other>>
    /\ UNCHANGED nops
    /\ clean' = clean
    /\ flushed' = index'
    /\ UNCHANGED cli_vars

\* ------------------------------------------------------------------ specification
Next ==
    \/ \E bsz \in BundleSizes : Create(bsz)
    \/ Open
    \/ OpenErr
    \/ \E m \in Modes, h \in Hashes : PutChunk(m, h)
    \/ Flush
    \/ \E k \in 1..4 : FlushErr(k)
    \/ RebuildIndex
    \/ Close
    \/ Abort
    \/ Crash
    \/ \E k \in 1..3 : FlushCrash(k)
    \/ \E cid \in ExtBundles : EnvAddRemote(cid)
    \/ \E cid \in remote : EnvDelRemote(cid)
    \/ \E kind \in {"shared", "exclusive"} : OtherLock(kind)
    \/ OtherUnlock
    \/ ClearStaleLock
    \/ VacuumLockBusy
    \/ VacuumAnalyzeErr
    \/ \E ratio \in Ratios, combine \in BOOLEAN : VacuumDryRun(ratio, combine)
    \/ \E ratio \in Ratios, combine \in BOOLEAN : VacuumStart(ratio, combine)
    \/ \E id \in vac.todo : VacuumRewrite(id)
    \/ \E id \in vac.todo : VacuumRewriteErr(id)
    \/ VacuumCheckOk
    \/ \E k \in 1..4 : VacuumFlushErr(k)
    \/ VacuumPanic
    \/ \E id \in vac.todo : VacuumDelete(id)
    \/ \E id \in vac.todo : VacuumDeleteErr(id)
    \/ VacuumSaveErr
    \/ VacuumFinish

Spec == Init /\ [][Next]_vars

\* ------------------------------------------------------------------ the id allocator alone
\* the ids the allocator is tried on: the low end and the high end of the id range
AllocIds == (0..2) \cup ((IdLimit - 3)..(IdLimit - 1))

\* next_free_bundle_id reads the keys of the Bundle Map and the two watermarks:
\* every set of keys and every pair of watermarks out of AllocIds
AllocInit ==
    /\ st = "alloc"
    /\ bundle_size = 2
    /\ remote = {}
    /\ cache_disk = {}
    /\ map_disk = EmptyMap
    /\ index = EmptyMap
    /\ dirty = FALSE
    /\ lock = "none"
    /\ other = "none"
    /\ \E ids \in SUBSET AllocIds : bundle_map = [id \in ids |-> Cid("Data", <<1>>)]
    /\ next_data_bundle \in AllocIds
    /\ next_meta_bundle \in AllocIds
    /\ data_bundle = <<>>
    /\ meta_bundle = <<>>
    /\ bundles = {}
    /\ vac = NoVac
    /\ op = "init"
    /\ nops = 0
    /\ clean = TRUE
    /\ flushed = EmptyMap
    /\ remote_link = "none"
    /\ backups = EmptyMap
    /\ proc = [p \in Procs |-> IdleProc]

\* self.next_data_bundle = self.next_free_bundle_id()
AllocData ==
    /\ st = "alloc"
    /\ next_data_bundle' = next_free_bundle_id(bundle_map, next_data_bundle, next_meta_bundle)
    /\ op' = "alloc_data"
    /\ UNCHANGED <<st, bundle_size, remote, cache_disk, map_disk, index, dirty, lock, other,
                   bundle_map, next_meta_bundle, data_bundle, meta_bundle, bundles, vac,
                   nops, clean, flushed>>
    /\ UNCHANGED cli_vars

\* self.next_meta_bundle = self.next_free_bundle_id()
AllocMeta ==
    /\ st = "alloc"
    /\ next_meta_bundle' = next_free_bundle_id(bundle_map, next_data_bundle, next_meta_bundle)
    /\ op' = "alloc_meta"
    /\ UNCHANGED <<st, bundle_size, remote, cache_disk, map_disk, index, dirty, lock, other,
                   bundle_map, next_data_bundle, data_bundle, meta_bundle, bundles, vac,
                   nops, clean, flushed>>
    /\ UNCHANGED cli_vars

\* a build with overflow checks: the overflowing addition panics
AllocPanic ==
    /\ st = "alloc"
    /\ next_free_overflows(bundle_map, next_data_bundle, next_meta_bundle)
    /\ st' = "panicked"
    /\ op' = "alloc_panic"
    /\ UNCHANGED <<bundle_size, remote, cache_disk, map_disk, index, dirty, lock, other,
                   bundle_map, next_data_bundle, next_meta_bundle, data_bundle, meta_bundle,
                   bundles, vac, nops, clean, flushed>>
    /\ UNCHANGED cli_vars

AllocNext ==
    \/ AllocData
    \/ AllocMeta
    \/ AllocPanic

AllocSpec == AllocInit /\ [][AllocNext]_vars

\* ------------------------------------------------------------------ the command line
BackupNames == {"a", "b"}

\* enum ErrorCode
ErrorCodes == {"UnsafeArgs", "InvalidArgs", "InitializeLogger", "CreateRepository",
               "LoadRepository", "SaveBackup", "LoadBackup", "LoadInode", "LoadBundle",
               "NoSuchBackup", "BackupAlreadyExists", "AddKey", "LoadKey", "SaveKey",
               "SaveConfig", "LoadExcludes", "InvalidExcludes", "BackupRun", "RestoreRun",
               "RemoveRun", "PruneRun", "VacuumRun", "CheckRun", "AnalyzeRun", "DiffRun",
               "VersionsRun", "ImportRun", "FuseMount"}

\* the arms of the match in ErrorCode::code
code_table ==
    [e \in ErrorCodes |->
        CASE e \in {"InitializeLogger", "InvalidExcludes"} -> -1
          [] e = "InvalidArgs" -> 1
          [] e = "UnsafeArgs" -> 2
          [] e = "LoadRepository" -> 3
          [] e = "LoadBackup" -> 4
          [] e = "LoadInode" -> 5
          [] e = "LoadBundle" -> 6
          [] e = "LoadKey" -> 7
          [] e = "LoadExcludes" -> 8
          [] e = "SaveBackup" -> 9
          [] e = "AddKey" -> 10
          [] e = "SaveKey" -> 11
          [] e = "SaveConfig" -> 12
          [] e = "CreateRepository" -> 13
          [] e = "BackupRun" -> 14
          [] e = "RestoreRun" -> 15
          [] e = "RemoveRun" -> 16
          [] e = "PruneRun" -> 17
          [] e = "VacuumRun" -> 18
          [] e = "CheckRun" -> 19
          [] e = "AnalyzeRun" -> 20
          [] e = "DiffRun" -> 21
          [] e = "VersionsRun" -> 22
          [] e = "ImportRun" -> 23
          [] e = "FuseMount" -> 24
          [] e = "NoSuchBackup" -> 25
          [] e = "BackupAlreadyExists" -> 26]

\* mutant: the last arm repeats the number of the arm before it
code_repeated(e) == [code_table EXCEPT !["BackupAlreadyExists"] = 25][e]

\* ErrorCode::code
code(e) == code_table[e]

\* std::process::exit(code): the exit status the parent sees is the low byte
exit_status(c) == c % 256

\* the frame of a command: the repository files the command line model leaves alone
RepoFrame ==
    UNCHANGED <<bundle_size, remote, cache_disk, map_disk, index, lock, other, bundle_map,
                next_data_bundle, next_meta_bundle, data_bundle, meta_bundle, bundles, vac,
                op, clean, flushed>>

\* a process is started in slot p
Started(p) ==
    /\ proc[p].pc \in {"idle", "exited"}
    /\ nops < MaxRuns
    /\ nops' = nops + 1

\* run returns r in slot p
Returns(p, c, r) == [IdleProc EXCEPT !.pc = "returned", !.cmd = c, !.ret = r]

\* open_repository
open_repository(opens) == IF st = "closed" /\ opens THEN "Ok" ELSE "LoadRepository"

\* Repository::has_backup
has_backup(name) == name \in DOMAIN backups

\* run, Arguments::Init: the remote path is checked, then Repository::create;
\* fails: fs::create_dir or a later step of create returns an error
CmdInit(p, absolute, fails) ==
    /\ Started(p)
    /\ IF ~absolute
       THEN /\ proc' = [proc EXCEPT ![p] = Returns(p, "init", "InvalidArgs")]
            /\ UNCHANGED <<st, remote_link>>
       ELSE IF remote_link # "none" \/ fails
       THEN /\ proc' = [proc EXCEPT ![p] = Returns(p, "init", "CreateRepository")]
            /\ UNCHANGED <<st, remote_link>>
       ELSE /\ proc' = [proc EXCEPT ![p] = Returns(p, "init", "Ok")]
            /\ remote_link' = "absolute"
            /\ st' = "closed"
    /\ UNCHANGED <<backups, dirty>>
    /\ RepoFrame

\* run, Arguments::Import, and Repository::import: create is called with the remote
\* path as given; fails: "dir" (fs::create_dir fails, nothing is created), "late"
\* (a step after the symlink fails), "none"
CmdImport(p, absolute, fails) ==
    /\ Started(p)
    /\ IF remote_link # "none" \/ fails = "dir"
       THEN /\ proc' = [proc EXCEPT ![p] = Returns(p, "import", "ImportRun")]
            /\ UNCHANGED <<st, remote_link>>
       ELSE /\ remote_link' = (IF absolute THEN "absolute" ELSE "relative")
            /\ IF fails = "late"
               THEN /\ proc' = [proc EXCEPT ![p] = Returns(p, "import", "ImportRun")]
                    /\ UNCHANGED st
               ELSE /\ proc' = [proc EXCEPT ![p] = Returns(p, "import", "Ok")]
                    /\ st' = "closed"
    /\ UNCHANGED <<backups, dirty>>
    /\ RepoFrame

\* run, Arguments::Backup, up to the backup run: open_repository, has_backup, the
\* reference backup (find_reference_backup) and the excludes; prep is what these
\* preparations end with
BackupBegin(p, name, opens, prep) ==
    /\ Started(p)
    /\ LET r == IF open_repository(opens) # "Ok" THEN "LoadRepository"
                ELSE IF has_backup(name) THEN "BackupAlreadyExists"
                ELSE IF prep \in {"Ok", "PartialBackupsList"} THEN "Ok"
                ELSE prep
       IN  proc' = [proc EXCEPT ![p] =
                IF r = "Ok"
                THEN [IdleProc EXCEPT !.pc = "backup_run", !.cmd = "backup", !.name = name,
                                      !.warned = (prep = "PartialBackupsList")]
                ELSE Returns(p, "backup", r)]
    /\ UNCHANGED <<st, remote_link, backups, dirty>>
    /\ RepoFrame

\* mutant: FailedPaths is handled like any other error of the backup run
BackupRunStrict(p, result, corrupt) ==
    /\ proc[p].pc = "backup_run"
    /\ proc' = [proc EXCEPT ![p] =
            IF result = "Ok"
            THEN [@ EXCEPT !.pc = "backup_save", !.run = result]
            ELSE [Returns(p, "backup", "BackupRun") EXCEPT !.name = proc[p].name,
                                                           !.run = result]]
    /\ dirty' = (dirty \/ (result = "Err" /\ corrupt))
    /\ UNCHANGED <<st, remote_link, backups, nops>>
    /\ RepoFrame

\* run, Arguments::Backup: create_backup_recursively / import_tarfile returns
BackupRun(p, result, corrupt) ==
    /\ proc[p].pc = "backup_run"
    /\ proc' = [proc EXCEPT ![p] =
            IF result \in {"Ok", "FailedPaths"}
            THEN [@ EXCEPT !.pc = "backup_save", !.run = result,
                           !.warned = (@ \/ result = "FailedPaths")]
            ELSE [Returns(p, "backup", "BackupRun") EXCEPT !.name = proc[p].name,
                                                           !.run = result]]
    /\ dirty' = (dirty \/ (result = "Err" /\ corrupt))
    /\ UNCHANGED <<st, remote_link, backups, nops>>
    /\ RepoFrame

\* Repository::save_backup: the backup file of that name is written
save_backup(bs, name, b) == [n \in DOMAIN bs \cup {name} |-> IF n = name THEN b ELSE bs[n]]

\* run, Arguments::Backup: save_backup and the return
BackupSave(p, ok) ==
    /\ proc[p].pc = "backup_save"
    /\ IF ok
       THEN /\ backups' = save_backup(backups, proc[p].name,
                                      [by |-> p, partial |-> (proc[p].run = "FailedPaths")])
            /\ proc' = [proc EXCEPT ![p] = [@ EXCEPT !.pc = "returned", !.ret = "Ok"]]
       ELSE /\ proc' = [proc EXCEPT ![p] = [@ EXCEPT !.pc = "returned", !.ret = "SaveBackup"]]
            /\ UNCHANGED backups
    /\ UNCHANGED <<st, remote_link, dirty, nops>>
    /\ RepoFrame

\* run, Arguments::Copy, up to save_backup: the paths are compared, open_repository,
\* has_backup of the target, get_backup of the source
CopyBegin(p, src, dst, same_repo, opens, loads) ==
    /\ Started(p)
    /\ LET r == IF ~same_repo THEN "InvalidArgs"
                ELSE IF open_repository(opens) # "Ok" THEN "LoadRepository"
                ELSE IF has_backup(dst) THEN "BackupAlreadyExists"
                ELSE IF ~has_backup(src) THEN "NoSuchBackup"
                ELSE IF ~loads THEN "LoadBackup"
                ELSE "Ok"
       IN  proc' = [proc EXCEPT ![p] =
                IF r = "Ok"
                THEN [IdleProc EXCEPT !.pc = "copy_save", !.cmd = "copy", !.name = dst,
                                      !.run = IF backups[src].partial THEN "FailedPaths"
                                              ELSE "Ok"]
                ELSE Returns(p, "copy", r)]
    /\ UNCHANGED <<st, remote_link, backups, dirty>>
    /\ RepoFrame

\* run, Arguments::Copy: save_backup and the return
CopySave(p, ok) ==
    /\ proc[p].pc = "copy_save"
    /\ IF ok
       THEN /\ backups' = save_backup(backups, proc[p].name,
                                      [by |-> p, partial |-> (proc[p].run = "FailedPaths")])
            /\ proc' = [proc EXCEPT ![p] = [@ EXCEPT !.pc = "returned", !.ret = "Ok"]]
       ELSE /\ proc' = [proc EXCEPT ![p] = [@ EXCEPT !.pc = "returned", !.ret = "SaveBackup"]]
            /\ UNCHANGED backups
    /\ UNCHANGED <<st, remote_link, dirty, nops>>
    /\ RepoFrame

\* the check steps the check command calls, in its order
CheckSteps(bundles_flag, index_flag) ==
    <<"check_repository">> \o (IF bundles_flag THEN <<"check_bundles">> ELSE <<>>)
        \o (IF index_flag THEN <<"check_index">> ELSE <<>>) \o <<"check_backups">>

\* the steps run when step number k fails (k = 0: none fails)
StepsRun(steps, k) == {steps[i] : i \in 1..(IF k = 0 THEN Len(steps) ELSE k)}

\* check_repository: a dirty repository is reported unless it is being repaired
check_repository_fails(repair) == dirty /\ ~repair

\* run, Arguments::Check; k: the number of the step that returns an error, 0 for none
CmdCheck(p, bundles_flag, index_flag, repair, opens, k) ==
    /\ Started(p)
    /\ LET steps == CheckSteps(bundles_flag, index_flag)
           fail == IF check_repository_fails(repair) THEN 1 ELSE k
       IN  /\ k \in 0..Len(steps)
           /\ IF open_repository(opens) # "Ok"
              THEN /\ proc' = [proc EXCEPT ![p] = Returns(p, "check", "LoadRepository")]
                   /\ UNCHANGED dirty
              ELSE IF fail # 0
              THEN /\ proc' = [proc EXCEPT ![p] =
                           [Returns(p, "check", "CheckRun") EXCEPT !.ran = StepsRun(steps, fail)]]
                   /\ UNCHANGED dirty
              ELSE /\ proc' = [proc EXCEPT ![p] =
                           [Returns(p, "check", "Ok") EXCEPT !.ran = StepsRun(steps, 0)]]
                   /\ dirty' = FALSE
    /\ UNCHANGED <<st, remote_link, backups>>
    /\ RepoFrame

\* run, Arguments::List: get_all_backups / get_backups returns result
CmdList(p, opens, result) ==
    /\ Started(p)
    /\ proc' = [proc EXCEPT ![p] =
            IF open_repository(opens) # "Ok" THEN Returns(p, "list", "LoadRepository")
            ELSE IF result = "Ok" THEN Returns(p, "list", "Ok")
            ELSE IF result = "PartialBackupsList"
            THEN [Returns(p, "list", "Ok") EXCEPT !.warned = TRUE, !.run = result]
            ELSE [Returns(p, "list", "LoadBackup") EXCEPT !.run = result]]
    /\ UNCHANGED <<st, remote_link, backups, dirty>>
    /\ RepoFrame

\* run: args::parse, logger::init and the other commands return r
CmdOther(p, r) ==
    /\ Started(p)
    /\ proc' = [proc EXCEPT ![p] = Returns(p, "other", r)]
    /\ UNCHANGED <<st, remote_link, backups, dirty>>
    /\ RepoFrame

\* main: exit(0) after Ok, exit(code.code()) after Err(code)
Exit(p) ==
    /\ proc[p].pc = "returned"
    /\ proc' = [proc EXCEPT ![p] =
            [@ EXCEPT !.pc = "exited",
                      !.status = IF proc[p].ret = "Ok" THEN 0
                                 ELSE exit_status(code(proc[p].ret))]]
    /\ UNCHANGED <<st, remote_link, backups, dirty, nops>>
    /\ RepoFrame

CliNext ==
    \/ \E p \in Procs, absolute \in BOOLEAN, fails \in BOOLEAN : CmdInit(p, absolute, fails)
    \/ \E p \in Procs, absolute \in BOOLEAN, fails \in {"none", "dir", "late"} :
          CmdImport(p, absolute, fails)
    \/ \E p \in Procs, name \in BackupNames, opens \in BOOLEAN,
          prep \in {"Ok", "PartialBackupsList", "InvalidArgs", "NoSuchBackup", "LoadBackup",
                    "LoadExcludes", "InvalidExcludes"} : BackupBegin(p, name, opens, prep)
    \/ \E p \in Procs, result \in {"Ok", "FailedPaths", "Err"}, corrupt \in BOOLEAN :
          BackupRun(p, result, corrupt)
    \/ \E p \in Procs, ok \in BOOLEAN : BackupSave(p, ok)
    \/ \E p \in Procs, src \in BackupNames, dst \in BackupNames, same_repo \in BOOLEAN,
          opens \in BOOLEAN, loads \in BOOLEAN : CopyBegin(p, src, dst, same_repo, opens, loads)
    \/ \E p \in Procs, ok \in BOOLEAN : CopySave(p, ok)
    \/ \E p \in Procs, bundles_flag \in BOOLEAN, index_flag \in BOOLEAN, repair \in BOOLEAN,
          opens \in BOOLEAN, k \in 0..4 : CmdCheck(p, bundles_flag, index_flag, repair, opens, k)
    \/ \E p \in Procs, opens \in BOOLEAN, result \in {"Ok", "PartialBackupsList", "Err"} :
          CmdList(p, opens, result)
    \/ \E p \in Procs, r \in ErrorCodes \cup {"Ok"} : CmdOther(p, r)
    \/ \E p \in Procs : Exit(p)

CliSpec == Init /\ [][CliNext]_vars

\* ------------------------------------------------------------------ vacuum of small bundles
\* the number of small bundles the repository is prepared with
MaxSmall == 4

\* the Repository value create returns
Created ==
    [bm |-> EmptyMap, nd |-> 1, nm |-> 0, data |-> <<>>, meta |-> <<>>, db |-> {},
     remote |-> {}, cache |-> {}, mapd |-> EmptyMap, index |-> EmptyMap, err |-> FALSE]

\* put_chunk and flush for the chunks h..n, one bundle of one chunk each
RECURSIVE Prepared(_, _, _, _, _)
Prepared(r, mode, h, n, bsz) ==
    IF h > n THEN r
    ELSE Prepared(flush(put_chunk(r, mode, h, bsz)), mode, h + 1, n, bsz)

\* the bundle of two chunks, not small, that the repository may hold besides
BigChunks == <<MaxSmall + 1, MaxSmall + 2>>

\* a repository after create, n small bundles of one mode written one by one and,
\* with big, a bundle of two chunks
VacInit ==
    /\ \E n \in 2..MaxSmall, mode \in Modes, bsz \in {5, 8}, big \in {"none", "Data", "Meta"} :
          LET r1 == Prepared(Created, mode, 1, n, bsz)
              r2 == IF big = "none" THEN r1
                    ELSE flush(put_chunk(put_chunk(r1, big, BigChunks[1], bsz),
                                         big, BigChunks[2], bsz))
          IN  /\ bundle_size = bsz
              /\ bundle_map = r2.bm
              /\ next_data_bundle = r2.nd
              /\ next_meta_bundle = r2.nm
              /\ data_bundle = r2.data
              /\ meta_bundle = r2.meta
              /\ bundles = r2.db
              /\ remote = r2.remote
              /\ cache_disk = r2.cache
              /\ map_disk = r2.mapd
              /\ index = r2.index
              /\ flushed = r2.index
    /\ st = "open"
    /\ dirty = FALSE
    /\ lock = "none"
    /\ other = "none"
    /\ vac = NoVac
    /\ op = "flush"
    /\ nops = 0
    /\ clean = TRUE
    /\ remote_link = "none"
    /\ backups = EmptyMap
    /\ proc = [p \in Procs |-> IdleProc]

\* vacuum(0.0, combine = true, force = true), step by step
VacNext ==
    \/ VacuumStart(0, TRUE)
    \/ \E id \in vac.todo : VacuumRewrite(id)
    \/ VacuumCheckOk
    \/ \E id \in vac.todo : VacuumDelete(id)
    \/ VacuumFinish

VacSpec == VacInit /\ [][VacNext]_vars


\* ------------------------------------------------------------------ import
\* Repository::import (mod.rs 138-155), from the files create leaves (an empty
\* bundles.map, an empty cache, the remote as it is): the value open returns, and
\* the files after the assignment repo = open(path) has dropped the value create
\* returned, whose drop calls flush (mod.rs 267-271)
import(new, pick) ==
    LET opened == open(new, <<>>, pick)
        created == [Created EXCEPT !.remote = opened.remote, !.cache = opened.cache,
                                   !.mapd = opened.mapd, !.index = opened.index]
        dropped == flush(created)
    IN  [opened EXCEPT !.mapd = dropped.mapd, !.cache = dropped.cache]

\* no repository at the path; the remote of another machine's repository holds
\* up to MaxRemote bundles
ImportInit ==
    /\ st = "none"
    /\ bundle_size = 0
    /\ remote \in {S \in SUBSET ExtBundles : Cardinality(S) <= MaxRemote}
    /\ cache_disk = {}
    /\ map_disk = EmptyMap
    /\ index = EmptyMap
    /\ dirty = FALSE
    /\ lock = "none"
    /\ other = "none"
    /\ bundle_map = EmptyMap
    /\ next_data_bundle = 0
    /\ next_meta_bundle = 0
    /\ data_bundle = <<>>
    /\ meta_bundle = <<>>
    /\ bundles = {}
    /\ vac = NoVac
    /\ op = "init"
    /\ nops = 0
    /\ clean = TRUE
    /\ flushed = EmptyMap
    /\ remote_link = "none"
    /\ backups = EmptyMap
    /\ proc = [p \in Procs |-> IdleProc]

\* Repository::import returns Ok
Import(bsz) ==
    /\ st = "none"
    /\ st' = "open"
    /\ bundle_size' = bsz
    /\ \E new \in Perms(remote), pick \in {"min", "max"} :
          LET r == import(new, pick)
          IN  InBound(r) /\ Install(r)
    /\ op' = "import"
    /\ UNCHANGED <<dirty, lock, other, vac>>
    /\ Count
    /\ clean' = clean
    /\ flushed' = index'
    /\ UNCHANGED cli_vars

ImportNext ==
    \/ \E bsz \in BundleSizes : Import(bsz)
    \/ \E m \in Modes, h \in Hashes : PutChunk(m, h)
    \/ Flush
    \/ Close
    \/ Open

ImportSpec == ImportInit /\ [][ImportNext]_vars

\* ------------------------------------------------------------------ repeated vacuum
\* the ratios below 1, in halves
LowRatios == {r \in Ratios : r < 2}

\* the repository operations with every forced vacuum called as
\* vacuum(ratio, combine = false, force = true), ratio < 1, and with no failure
\* of the environment
FixNext ==
    \/ \E bsz \in BundleSizes : Create(bsz)
    \/ \E m \in Modes, h \in Hashes : PutChunk(m, h)
    \/ Flush
    \/ RebuildIndex
    \/ Close
    \/ Open
    \/ \E ratio \in LowRatios : VacuumStart(ratio, FALSE)
    \/ \E id \in vac.todo : VacuumRewrite(id)
    \/ VacuumCheckOk
    \/ \E id \in vac.todo : VacuumDelete(id)
    \/ VacuumFinish

FixSpec == Init /\ [][FixNext]_vars

\* a step of a running vacuum: the loops of vacuum.rs 80-114 range over finite sets
\* and no step of them waits, so a vacuum that has begun goes on until it returns
VacuumStep ==
    \/ \E id \in vac.todo : VacuumRewrite(id)
    \/ \E id \in vac.todo : VacuumRewriteErr(id)
    \/ VacuumCheckOk
    \/ \E k \in 1..4 : VacuumFlushErr(k)
    \/ VacuumPanic
    \/ \E id \in vac.todo : VacuumDelete(id)
    \/ \E id \in vac.todo : VacuumDeleteErr(id)
    \/ VacuumSaveErr
    \/ VacuumFinish

LiveSpec == Spec /\ WF_vars(VacuumStep)

\* under LiveSpec: a vacuum that holds the lock returns and leaves no lock file,
\* unless the process is killed
VacuumReturns ==
    (st \in {"vac_rewrite", "vac_delete"}) ~> (lock = "none" \/ op = "crash")


\* ------------------------------------------------------------------ claims
\* the hash of the chunk an index entry resolves to: through the Bundle Map, or,
\* for a chunk still held by an active writer, through that writer (the bundle
\* being written under the watermark of its mode)
Resolves(h) ==
    LET loc == index[h]
    IN  \/ ChunkAt(bundle_map, remote, loc) = h
        \/ /\ loc.bundle = next_data_bundle
           /\ loc.chunk < Len(data_bundle)
           /\ data_bundle[loc.chunk + 1] = h
        \/ /\ loc.bundle = next_meta_bundle
           /\ loc.chunk < Len(meta_bundle)
           /\ meta_bundle[loc.chunk + 1] = h

Injective(bm) == \A i, j \in DOMAIN bm : bm[i] = bm[j] => i = j

\* a step of Repository::open
OpenStep == st = "closed" /\ st' = "open"

\* a step in which the process writes repository files
Writes == map_disk' # map_disk \/ remote' # remote \/ cache_disk' # cache_disk

\* C1: after any sequence of operations that all returned Ok, every index entry
\* names a bundle id of the Bundle Map (I1) and the chunk stored at its position has
\* the entry's hash (I2); a chunk still held by an active writer counts as stored
\* under the watermark of the writer.
C1_IndexInvariant ==
    (st = "open" /\ clean /\ op \in {"ok", "open", "flush", "rebuild", "vacuum_ok", "vacuum_dry"})
        => \A h \in DOMAIN index : Resolves(h)

\* C2: after a forced vacuum has returned Ok, every hash that the index mapped to
\* an in-use chunk when the vacuum began is still in the index and its Location
\* holds the same chunk.
C2_VacuumKeepsInUse ==
    op = "vacuum_ok"
        => \A h \in vac.inuse :
              h \in DOMAIN index /\ ChunkAt(bundle_map, remote, index[h]) = h

\* C3: after a forced vacuum has returned Ok, no index entry carries the id of a
\* bundle this vacuum deleted, none of the deleted ids is in the Bundle Map, and
\* the deleted ids are the rewrite set.
C3_NoDeletedReferenced ==
    op = "vacuum_ok"
        => /\ vac.deleted = vac.R
           /\ \A h \in DOMAIN index : index[h].bundle \notin vac.deleted
           /\ vac.deleted \cap DOMAIN bundle_map = {}

C3_Witness ==
    /\ op = "vacuum_ok"
    /\ vac.deleted # {}
    /\ DOMAIN index # {}

\* C4: an id that is in the Bundle Map keeps its content-id across open (compared
\* with the loaded bundles.map) and across every step of an open repository, as
\* long as it stays in the map.
C4_NoRebind ==
    [][/\ OpenStep =>
            \A id \in DOMAIN map_disk \cap DOMAIN bundle_map' :
                bundle_map'[id] = map_disk[id]
       /\ (st # "closed" /\ st # "none" /\ st' # "closed") =>
            \A id \in DOMAIN bundle_map \cap DOMAIN bundle_map' :
                bundle_map'[id] = bundle_map[id]]_vars

\* C5: whenever no operation is in progress, the Bundle Map, in memory and in
\* bundles.map, is injective: no two ids are bound to the same content-id.
C5_MapInjective ==
    st \in {"open", "closed"} => (Injective(bundle_map) /\ Injective(map_disk))

\* C6: when the process was killed, the following open yields the Bundle Map that
\* was persisted and the index as it was when the last flush completed.
C6_CrashRestoresFlushed ==
    [][(OpenStep /\ op = "crash") =>
            (bundle_map' = map_disk /\ index' = flushed)]_vars

\* C7: when a mutation is aborted before flush and the Repository value is dropped,
\* nothing is published to remote/bundles.
C7_AbortPublishesNothing ==
    [][(st = "open" /\ op' = "abort") => remote' = remote]_vars

\* C8: the handlers whose callers are all in the source (open, the drop of the
\* Repository value, vacuum) write repository files only while this process holds
\* the exclusive lock and no other process holds a lock.
C8_WritesUnderLock ==
    [][((OpenStep \/ st' = "closed" \/ op' \in {"vacuum", "vacuum_dry", "vacuum_ok"}
            \/ st \in {"vac_rewrite", "vac_delete"})
        /\ st # "none" /\ op' # "env" /\ op' # "crash" /\ Writes)
            => (lock = "exclusive" /\ other = "none")]_vars

\* C9: a vacuum that is refused the exclusive lock returns its error with the
\* index, the dirty flag and the lock files unchanged, no id removed from the
\* Bundle Map and no bundle removed from remote/bundles or added to it except the
\* writers its initial flush published.
C9_LockBusyChangesNothing ==
    [][(st = "open" /\ op' = "vacuum_lock_busy") =>
            /\ index' = index
            /\ dirty' = dirty
            /\ lock' = lock /\ other' = other
            /\ DOMAIN bundle_map \subseteq DOMAIN bundle_map'
            /\ remote \subseteq remote'
            /\ remote' \subseteq remote \cup {Cid("Data", data_bundle), Cid("Meta", meta_bundle)}
            /\ data_bundle' = <<>> /\ meta_bundle' = <<>>]_vars

C9_Witness ==
    /\ op = "vacuum_lock_busy"
    /\ other # "none"
    /\ DOMAIN index # {}
    /\ ~dirty

\* C10: when vacuum has returned after taking the lock (Ok with or without force,
\* an error, or the panic of the index check), no lock file of this process is
\* left, so the lock of another process is not refused because of it.
C10_LockReleased ==
    op \in {"vacuum_dry", "vacuum_ok", "vacuum_err", "vacuum_panic"} => lock = "none"

C10_Witness ==
    /\ op = "vacuum_panic"
    /\ lock = "none"
    /\ other = "none"

\* C11: after open, no id is bound to a bundle the Bundle DB reported gone and
\* bundles.map had bound, and every index entry that carries the id such a bundle
\* had belongs to the bundle the id is bound to now; also when the same open finds
\* new bundles.
C11_GoneRemoved ==
    [][OpenStep =>
        \A id \in DOMAIN map_disk :
            map_disk[id] \in GoneBundles =>
                /\ \A j \in DOMAIN bundle_map' : bundle_map'[j] # map_disk[id]
                /\ \A h \in DOMAIN index' :
                      index'[h].bundle = id
                          => ChunkAt(bundle_map', remote', index'[h]) = h]_vars

\* the ids the map binds to a content-id
IdsOf(bm, cid) == {k \in DOMAIN bm : bm[k] = cid}

\* the hashes of a chunk list
HashesOf(chunks) == {chunks[i] : i \in 1..Len(chunks)}

\* C12: after open, every bundle the Bundle DB reported new is bound to exactly
\* one id k, and each hash of its chunk list is in the index, mapped to (k, i) for
\* its position i unless another new bundle of the same open holds the hash too.
C12_NewAdded ==
    [][OpenStep =>
        \A cid \in NewBundles :
            /\ Cardinality(IdsOf(bundle_map', cid)) = 1
            /\ \A k \in IdsOf(bundle_map', cid), i \in 1..Len(cid.chunks) :
                  LET h == cid.chunks[i]
                  IN  /\ h \in DOMAIN index'
                      /\ \/ index'[h] = Location(k, i - 1)
                         \/ \E c2 \in NewBundles \ {cid} : h \in HashesOf(c2.chunks)]_vars

\* C13: when flush has returned Ok, no writer is active, each writer that was
\* active is bound in the Bundle Map to the id that was the watermark of its mode
\* when flush began, the watermark of that mode is an id the map does not hold,
\* and bundles.map equals the Bundle Map.
C13_FlushPost ==
    [][(st = "open" /\ op' = "flush") =>
        /\ data_bundle' = <<>> /\ meta_bundle' = <<>>
        /\ data_bundle # <<>> =>
              /\ next_data_bundle \in DOMAIN bundle_map'
              /\ bundle_map'[next_data_bundle] = Cid("Data", data_bundle)
              /\ next_data_bundle' \notin DOMAIN bundle_map'
        /\ meta_bundle # <<>> =>
              /\ next_meta_bundle \in DOMAIN bundle_map'
              /\ bundle_map'[next_meta_bundle] = Cid("Meta", meta_bundle)
              /\ next_meta_bundle' \notin DOMAIN bundle_map'
        /\ map_disk' = bundle_map']_vars

\* a flush that found both writers active: create, two put_chunk, flush
C13_Witness ==
    /\ op = "flush"
    /\ nops = 4
    /\ bundle_size = 5
    /\ \E i, j \in DOMAIN bundle_map :
          bundle_map[i].mode = "Data" /\ bundle_map[j].mode = "Meta"
    /\ map_disk = bundle_map

\* C14: when rebuild_index has returned Ok, the keys of the index are the hashes
\* of the chunk lists of the bundles in the Bundle Map, every entry (id, i) names
\* a mapped bundle whose chunk i has the hash of the entry, and no entry that
\* named an unmapped id before the rebuild is left.
C14_RebuildPost ==
    [][(st = "open" /\ op' = "rebuild") =>
        /\ DOMAIN index' =
              UNION {HashesOf(bundle_map'[id].chunks) : id \in DOMAIN bundle_map'}
        /\ \A h \in DOMAIN index' :
              /\ index'[h].bundle \in DOMAIN bundle_map'
              /\ index'[h].chunk < Len(bundle_map'[index'[h].bundle].chunks)
              /\ bundle_map'[index'[h].bundle].chunks[index'[h].chunk + 1] = h
        /\ \A h \in DOMAIN index :
              index[h].bundle \notin DOMAIN bundle_map
                  => ~(h \in DOMAIN index' /\ index'[h] = index[h])]_vars

\* a rebuild that dropped the entry of a chunk still held by the data writer and
\* kept the entries of the mapped bundles
C14_Witness ==
    /\ op = "rebuild"
    /\ data_bundle # <<>>
    /\ data_bundle[1] \notin DOMAIN index
    /\ DOMAIN index # {}

\* the bundles of the analysis whose used chunks are at most ratio / 2 of their chunks
AtMostRatio(usage, ratio) ==
    {b \in DOMAIN usage :
        2 * Cardinality(usage[b].used) <= ratio * Len(usage[b].info.chunks)}

\* the bundles of a mode whose encoded size is below a quarter of bundle_size
SmallOf(usage, mode) ==
    {b \in DOMAIN usage :
        usage[b].info.mode = mode /\ 4 * Len(usage[b].info.chunks) < bundle_size}

\* C15: the rewrite set a vacuum has computed is the set of bundles with usage
\* ratio <= ratio, joined, when combine is set, for each mode on its own with the
\* small bundles of the mode when there are at least two of them; without
\* combine it holds no bundle with a larger usage ratio.
C15_RewriteSet ==
    \A a \in vac.args :
        /\ vac.R = AtMostRatio(vac.usage, a.ratio)
                   \cup (IF a.combine /\ Cardinality(SmallOf(vac.usage, "Meta")) >= 2
                         THEN SmallOf(vac.usage, "Meta") ELSE {})
                   \cup (IF a.combine /\ Cardinality(SmallOf(vac.usage, "Data")) >= 2
                         THEN SmallOf(vac.usage, "Data") ELSE {})
        /\ ~a.combine => vac.R \subseteq AtMostRatio(vac.usage, a.ratio)

\* a vacuum with combine whose rewrite set holds the two small bundles of one mode,
\* above the ratio, and leaves out the lone small bundle of the other mode
C15_Witness ==
    \E a \in vac.args :
        /\ a.combine
        /\ vac.R \ AtMostRatio(vac.usage, a.ratio) # {}
        /\ \E m \in Modes :
              Cardinality(SmallOf(vac.usage, m)) = 1 /\ SmallOf(vac.usage, m) \cap vac.R = {}

\* the content-ids of the active writers, the bundles a flush publishes
WriterCids ==
    (IF data_bundle = <<>> THEN {} ELSE {Cid("Data", data_bundle)})
    \cup (IF meta_bundle = <<>> THEN {} ELSE {Cid("Meta", meta_bundle)})

\* C16: a vacuum with force = false returns Ok with the index unchanged, no
\* bundle deleted, no bundle written but the writers its initial flush published,
\* every id of the Bundle Map bound as before, the only new ids those of the
\* flushed writers, and the dirty flag false.
C16_DryRunFrame ==
    [][(st = "open" /\ op' = "vacuum_dry") =>
        /\ index' = index
        /\ remote' = remote \cup WriterCids
        /\ \A id \in DOMAIN bundle_map :
              id \in DOMAIN bundle_map' /\ bundle_map'[id] = bundle_map[id]
        /\ \A id \in DOMAIN bundle_map' \ DOMAIN bundle_map : bundle_map'[id] \in WriterCids
        /\ dirty' = FALSE]_vars

\* a dry run that found bundles to rewrite
C16_Witness ==
    /\ op = "vacuum_dry"
    /\ vac.R # {}
    /\ DOMAIN index # {}
    /\ \A id \in vac.R : id \in DOMAIN bundle_map /\ bundle_map[id] \in remote
    /\ ~dirty

\* C17: in a forced vacuum no bundle of the rewrite set is deleted while the
\* rewrite is going on; the deletion goes on only with both writers flushed and
\* no index entry pointing into the rewrite set; only bundles of the rewrite set
\* are deleted; and when the check has panicked, nothing was deleted and
\* bundles.map still binds every id of the rewrite set to a stored bundle.
C17_DeleteAfterCheck ==
    /\ vac.deleted \subseteq vac.R
    /\ st = "vac_rewrite" =>
          /\ vac.deleted = {}
          /\ \A id \in vac.R : id \in DOMAIN bundle_map /\ bundle_map[id] \in remote
    /\ st = "vac_delete" =>
          /\ data_bundle = <<>> /\ meta_bundle = <<>>
          /\ \A h \in DOMAIN index : index[h].bundle \notin vac.R
    /\ op = "vacuum_panic" =>
          /\ vac.deleted = {}
          /\ \A id \in vac.R : id \in DOMAIN map_disk /\ map_disk[id] \in remote

\* the check has panicked with a rewrite set that is not empty
C17_Witness ==
    /\ op = "vacuum_panic"
    /\ vac.R # {}
    /\ \E h \in DOMAIN index : index[h].bundle \in vac.R

\* C18: when a forced vacuum has returned an error after its usage analysis (in
\* the analysis, the rewrite loop, the second flush, the delete loop or the final
\* save of the Bundle Map), the dirty flag is true; when it has returned Ok the
\* flag is false.
C18_DirtyOnError ==
    /\ op = "vacuum_err" => dirty
    /\ op \in {"vacuum_ok", "vacuum_dry"} => ~dirty

\* a forced vacuum has returned an error after it had deleted a bundle
C18_Witness ==
    /\ op = "vacuum_err"
    /\ vac.deleted # {}
    /\ dirty

\* id is the smallest id of the id range above both watermarks that the map lacks
SmallestFree(bm, nd, nm, id) ==
    /\ id \in 0..(IdLimit - 1)
    /\ id > nd
    /\ id > nm
    /\ id \notin DOMAIN bm
    /\ \A j \in 0..(IdLimit - 1) : (j > nd /\ j > nm /\ j \notin DOMAIN bm) => id <= j

\* next_free_bundle_id has returned, and what it returned is the SmallestFree id
AllocReturnsSmallest ==
    \/ /\ op' = "alloc_data"
       /\ SmallestFree(bundle_map, next_data_bundle, next_meta_bundle, next_data_bundle')
    \/ /\ op' = "alloc_meta"
       /\ SmallestFree(bundle_map, next_data_bundle, next_meta_bundle, next_meta_bundle')

\* C19 as stated: for every Bundle Map and every pair of watermarks of the id
\* range, next_free_bundle_id returns the smallest id that is above both
\* watermarks and absent from the map.
C19_SmallestFree == [][st = "alloc" => AllocReturnsSmallest]_vars

\* C19 amended: whenever the id range holds an id above both watermarks that is
\* absent from the map, next_free_bundle_id returns the smallest such id.
C19_SmallestFreeIfAny ==
    [][(/\ st = "alloc"
        /\ \E j \in 0..(IdLimit - 1) :
              j > next_data_bundle /\ j > next_meta_bundle /\ j \notin DOMAIN bundle_map)
       => AllocReturnsSmallest]_vars

\* the loop has skipped a mapped id above the other watermark
C19_Witness ==
    /\ op = "alloc_data"
    /\ next_data_bundle \notin DOMAIN bundle_map
    /\ next_data_bundle - 1 \in DOMAIN bundle_map
    /\ next_data_bundle - 1 > next_meta_bundle
    /\ next_data_bundle >= IdLimit - 2

\* C20 as stated: after open has returned Ok, the next-data and the next-meta
\* watermark are each greater than every id present in the Bundle Map.
C20_WatermarksAboveMap ==
    [][OpenStep => \A id \in DOMAIN bundle_map' :
                      next_data_bundle' > id /\ next_meta_bundle' > id]_vars

\* C20 amended: after open has returned Ok, the two watermarks are two different
\* ids, neither of them present in the Bundle Map.
C20_WatermarksFree ==
    [][OpenStep => /\ next_meta_bundle' \notin DOMAIN bundle_map'
                   /\ next_data_bundle' \notin DOMAIN bundle_map'
                   /\ next_data_bundle' # next_meta_bundle']_vars

\* open has returned with the next-meta watermark in a gap below a mapped id
C20_Witness ==
    /\ op = "open"
    /\ \E id \in DOMAIN bundle_map : id > next_meta_bundle /\ id < next_data_bundle
    /\ next_meta_bundle \notin DOMAIN bundle_map

\* C21 as stated: in no reachable state does the Bundle Map contain id 0, and no
\* Index entry carries bundle id 0.
C21_IdZeroUnused ==
    /\ 0 \notin DOMAIN bundle_map
    /\ \A h \in DOMAIN index : index[h].bundle # 0

\* C21 amended: id 0 enters the Bundle Map only as the Meta bundle registered at
\* the next-meta watermark 0 that create sets, or in an open that has new remote
\* bundles; the next-data watermark of an open repository is never 0, and after
\* open both watermarks are at least 1.
C21_IdZeroOnlyFirstMeta ==
    [][/\ (0 \notin DOMAIN bundle_map /\ 0 \notin DOMAIN map_disk /\ 0 \in DOMAIN bundle_map')
           => \/ OpenStep /\ NewBundles # {}
              \/ /\ st # "closed"
                 /\ next_meta_bundle = 0
                 /\ bundle_map'[0].mode = "Meta"
                 /\ next_meta_bundle' >= 1
       /\ st' = "open" => next_data_bundle' >= 1
       /\ OpenStep => next_meta_bundle' >= 1]_vars

\* the first Meta bundle after create has been registered under id 0 by a flush
C21_Witness ==
    /\ op = "flush"
    /\ 0 \in DOMAIN bundle_map
    /\ bundle_map[0].mode = "Meta"
    /\ next_meta_bundle >= 1
    /\ \E h \in DOMAIN index : index[h].bundle = 0

\* the ids under which a step registers a bundle: bound after the step, and not
\* bound to the same bundle before it (prev is the map the step started from)
Registered(prev, next) == {id \in DOMAIN next : id \notin DOMAIN prev \/ prev[id] # next[id]}

\* every id registered by the step is above every id of the same mode in prev
MonotoneStep(prev, next) ==
    \A id \in Registered(prev, next), j \in DOMAIN prev :
        (j # id /\ prev[j].mode = next[id].mode) => id > j

\* C22 as stated: whenever a bundle of mode m is registered in the Bundle Map, by
\* flush or by add_new_remote_bundle, its id is greater than the id of every
\* bundle of mode m registered earlier (here: of those still mapped).
C22_IdsMonotone ==
    [][IF OpenStep THEN MonotoneStep(map_disk, bundle_map')
       ELSE MonotoneStep(bundle_map, bundle_map')]_vars

\* C22 amended: from create or open until the repository is closed, no watermark
\* decreases, and every bundle registered is given an id that is at least the
\* watermark of its mode before the step and below that watermark after it; so
\* the ids a session gives the bundles of one mode increase.
C22_IdsMonotoneInSession ==
    [][(st \in {"open", "vac_rewrite", "vac_delete"})
       => /\ \A id \in Registered(bundle_map, bundle_map') :
                id >= (IF bundle_map'[id].mode = "Data" THEN next_data_bundle
                       ELSE next_meta_bundle)
          /\ (st' \in {"open", "vac_rewrite", "vac_delete"})
               => /\ next_data_bundle' >= next_data_bundle
                  /\ next_meta_bundle' >= next_meta_bundle
                  /\ \A id \in Registered(bundle_map, bundle_map') :
                        id < (IF bundle_map'[id].mode = "Data" THEN next_data_bundle'
                              ELSE next_meta_bundle')]_vars

\* one session has registered two Data bundles, the second above the first
C22_Witness ==
    /\ op = "flush"
    /\ clean
    /\ cache_disk = remote
    /\ \E i, j \in DOMAIN bundle_map :
          /\ i < j
          /\ bundle_map[i].mode = "Data"
          /\ bundle_map[j].mode = "Data"
          /\ next_data_bundle > j

\* C23: no repository is ever created with a non-absolute remote path: the init and
\* the import command reject a relative remote path before the symlink (or any
\* other part of the repository) is created.
C23_RemoteAbsolute == remote_link # "relative"

\* the check command returns in slot p in this step
CheckReturns(p) ==
    /\ proc[p].pc # "returned"
    /\ proc'[p].pc = "returned"
    /\ proc'[p].cmd = "check"

\* C24: the check command clears the dirty flag (it returns Ok, after set_clean)
\* only after check_repository, check_bundles, check_index and the backup check
\* have all been run; when a step fails it returns an error and the flag is as
\* it was.
C24_CleanAfterFullCheck ==
    [][\A p \in Procs : CheckReturns(p) =>
          /\ proc'[p].ret = "Ok" =>
                proc'[p].ran = {"check_repository", "check_bundles", "check_index",
                                "check_backups"}
          /\ proc'[p].ret # "Ok" => dirty' = dirty]_vars

\* the processes that have exited
Exited == {p \in Procs : proc[p].pc = "exited"}

\* the exit status is 0 exactly after Ok, and every failure kind has a nonzero code
ExitZeroIffOk ==
    /\ \A p \in Exited : proc[p].status = 0 <=> proc[p].ret = "Ok"
    /\ \A p \in Exited : proc[p].ret # "Ok" => code(proc[p].ret) # 0

\* C25 as stated: ErrorCode::code gives every failure kind a nonzero exit code and
\* different failure kinds different exit codes, and the process exits with 0
\* exactly when run returns Ok.
C25_ExitCodes ==
    /\ ExitZeroIffOk
    /\ \A p, q \in Exited :
          (proc[p].ret # "Ok" /\ proc[q].ret # "Ok" /\ proc[p].ret # proc[q].ret)
              => proc[p].status # proc[q].status

\* C25 amended: as stated, except that InitializeLogger and InvalidExcludes share
\* the code -1 (exit status 255).
C25_ExitCodesButOnePair ==
    /\ ExitZeroIffOk
    /\ \A p, q \in Exited :
          (proc[p].ret # "Ok" /\ proc[q].ret # "Ok" /\ proc[p].ret # proc[q].ret)
              => \/ proc[p].status # proc[q].status
                 \/ /\ {proc[p].ret, proc[q].ret} = {"InitializeLogger", "InvalidExcludes"}
                    /\ proc[p].status = 255

\* two processes have exited with the two highest codes
C25_Witness ==
    \E p, q \in Exited :
        /\ proc[p].ret = "NoSuchBackup"
        /\ proc[p].status = 25
        /\ proc[q].ret = "BackupAlreadyExists"
        /\ proc[q].status = 26

\* what a command that met a partial result, or another error of the backup run
\* or of the listing, has done in slot p
PartialHandled(p) ==
    LET c == proc[p]
    IN  /\ (c.cmd = "backup" /\ c.run = "FailedPaths")
             => /\ c.warned
                /\ c.pc \in {"backup_save", "returned", "exited"}
                /\ c.ret \in {"none", "Ok", "SaveBackup"}
        /\ (c.cmd = "backup" /\ c.run = "Err")
             => (c.ret = "BackupRun" /\ code(c.ret) # 0)
        /\ (c.cmd = "list" /\ c.run = "PartialBackupsList")
             => (c.warned /\ c.ret = "Ok")
        /\ (c.cmd = "list" /\ c.run = "Err")
             => (c.ret = "LoadBackup" /\ code(c.ret) # 0)

\* C26: a backup run that ends with FailedPaths still saves the backup under the
\* requested name and the command returns Ok after a warning (unless save_backup
\* itself fails); a listing that ends with PartialBackupsList goes on with the
\* partial map; any other error of the backup run or of the listing makes the
\* command return a nonzero code, and a command that returns an error saves nothing.
C26_PartialRecoverable ==
    [][\A p \in Procs :
          /\ PartialHandled(p)'
          /\ (proc[p].pc = "backup_save" /\ proc'[p].ret = "Ok")
                => /\ proc[p].name \in DOMAIN backups'
                   /\ backups'[proc[p].name] =
                          [by |-> p, partial |-> (proc[p].run = "FailedPaths")]
          /\ (proc[p].pc # "returned" /\ proc'[p].pc = "returned" /\ proc'[p].ret # "Ok")
                => backups' = backups]_vars

\* a backup with failed paths has been saved and its command has exited with 0,
\* after a listing that went on with a partial map
C26_Witness ==
    \E p, q \in Procs :
        /\ proc[p].cmd = "backup"
        /\ proc[p].run = "FailedPaths"
        /\ proc[p].warned
        /\ proc[p].pc = "exited"
        /\ proc[p].status = 0
        /\ proc[p].name \in DOMAIN backups
        /\ backups[proc[p].name] = [by |-> p, partial |-> TRUE]
        /\ proc[q].cmd = "list"
        /\ proc[q].run = "PartialBackupsList"
        /\ proc[q].ret = "Ok"

\* the bundles of the map that the prepared repository did not hold
NewBundlesOfVacuum ==
    {id \in DOMAIN bundle_map :
        Len(bundle_map[id].chunks) # 1 /\ bundle_map[id].chunks # BigChunks}

\* the small bundles the repository was prepared with that are still stored
SmallLeft == {cid \in remote : Len(cid.chunks) = 1}

C28_NoBackupReplaced ==
    [][\A p \in Procs :
          /\ (proc[p].pc \in {"idle", "exited"} /\ proc'[p].pc \in {"backup_run", "copy_save"})
                => proc'[p].name \notin DOMAIN backups
          /\ (proc[p].pc # "returned" /\ proc'[p].pc = "returned"
                /\ proc'[p].cmd \in {"backup", "copy"}
                /\ proc'[p].ret = "BackupAlreadyExists")
                => (backups' = backups /\ code(proc'[p].ret) = 26)
          /\ (proc[p].pc \in {"backup_save", "copy_save"} /\ proc'[p].ret = "Ok")
                => proc[p].name \notin DOMAIN backups]_vars

\* C29: whenever create, open, flush or vacuum has returned Ok (put_chunk and
\* drop return under the same mark as create), the next-data and the next-meta
\* watermark are different ids and neither is a key of the Bundle Map.
C29_WatermarksDistinctFree ==
    (st = "open" /\ op \in {"ok", "open", "flush", "vacuum_ok", "vacuum_dry"})
        => /\ next_data_bundle # next_meta_bundle
           /\ {next_data_bundle, next_meta_bundle} \cap DOMAIN bundle_map = {}

\* flush has registered a data and a meta bundle and both watermarks are free
C29_Witness ==
    /\ st = "open" /\ op = "flush"
    /\ \E d, m \in DOMAIN bundle_map :
          bundle_map[d].mode = "Data" /\ bundle_map[m].mode = "Meta"
    /\ next_data_bundle # next_meta_bundle
    /\ {next_data_bundle, next_meta_bundle} \cap DOMAIN bundle_map = {}

\* a is a prefix of b
IsPrefix(a, b) == Len(a) <= Len(b) /\ SubSeq(b, 1, Len(a)) = a

\* One step seen from the writer of a mode: w, wm, bm are the writer, the
\* watermark of its mode and the map before the step, wn, wmn, bmn, ixn the
\* writer, the watermark, the map and the index after it.
\*  - the writer stays active: its watermark is unchanged;
\*  - chunks are appended and the writer stays active: each has its Location
\*    under the watermark, at its position in the writer;
\*  - the active writer is registered: under the watermark it was filled at.
WriterStep(mode, w, wn, wm, wmn, bm, bmn, ixn) ==
    /\ (w # <<>> /\ wn # <<>> /\ IsPrefix(w, wn)) => wmn = wm
    /\ (wn # <<>> /\ IsPrefix(w, wn))
          => \A i \in (Len(w) + 1)..Len(wn) :
                \/ /\ wn[i] \in DOMAIN ixn
                   /\ ixn[wn[i]] = Location(wmn, i - 1)
                \/ \E j \in (i + 1)..Len(wn) : wn[j] = wn[i]
    /\ w # <<>>
          => \A id \in Registered(bm, bmn) :
                (bmn[id].mode = mode /\ IsPrefix(w, bmn[id].chunks)) => id = wm

\* C30: while the writer of a mode is active no step changes the watermark of that
\* mode, the Location of every chunk appended to it carries that watermark, and
\* the finalized writer is registered under that very id.
C30_WriterIdStable ==
    [][/\ WriterStep("Data", data_bundle, data_bundle', next_data_bundle,
                     next_data_bundle', bundle_map, bundle_map', index')
       /\ WriterStep("Meta", meta_bundle, meta_bundle', next_meta_bundle,
                     next_meta_bundle', bundle_map, bundle_map', index')]_vars

\* flush has registered, with no error before it, a data writer and a meta writer
\* that were active together and not full, and the Index holds the chunks of each
\* under the id of its bundle
C30_Witness ==
    /\ st = "open" /\ op = "flush" /\ clean
    /\ \E d, m \in DOMAIN bundle_map :
          /\ bundle_map[d].mode = "Data" /\ bundle_map[m].mode = "Meta"
          /\ \A b \in {d, m} :
                /\ Len(bundle_map[b].chunks) < bundle_size
                /\ \A i \in 1..Len(bundle_map[b].chunks) :
                      /\ bundle_map[b].chunks[i] \in DOMAIN index
                      /\ index[bundle_map[b].chunks[i]] = Location(b, i - 1)

\* C31: during the rewrite step of a forced vacuum an index entry is removed or
\* redirected only if its Location lay in a bundle of the rewrite set when the
\* vacuum began: every entry whose Location lay outside the rewrite set is still
\* there, unchanged (flushed is the index as the vacuum found it).
C31_RewriteTouchesOnlyR ==
    st = "vac_rewrite"
        => \A h \in DOMAIN flushed :
              flushed[h].bundle \notin vac.R
                  => (h \in DOMAIN index /\ index[h] = flushed[h])

\* the hashes stored in the bundles present in remote/bundles
StoredHashes == UNION {HashesOf(cid.chunks) : cid \in remote}

\* C32: at every intermediate point of a forced vacuum every hash that was in use
\* when the vacuum began is in the chunk list of a bundle present in
\* remote/bundles.
C32_InUseAlwaysStored ==
    st \in {"vac_rewrite", "vac_delete"} => vac.inuse \subseteq StoredHashes

\* I1 and I2 held when the running vacuum began: every entry of the index the
\* vacuum found (flushed) names a bundle of the map the usage was computed from,
\* and that bundle's chunk list has the entry's hash at the entry's position
VacuumBeganSound ==
    \A h \in DOMAIN flushed :
        LET loc == flushed[h]
        IN  /\ loc.bundle \in DOMAIN vac.usage
            /\ loc.chunk < Len(vac.usage[loc.bundle].info.chunks)
            /\ vac.usage[loc.bundle].info.chunks[loc.chunk + 1] = h

\* C33: if I1 and I2 hold when a forced vacuum starts, the bundles the rewrite
\* creates never get an id of the rewrite set, and after the rewrite and the
\* second flush no index entry points into the rewrite set: the check does not
\* panic.
C33_NoPanicFromSoundIndex ==
    [][(st = "vac_rewrite" /\ VacuumBeganSound)
          => /\ op' # "vacuum_panic"
             /\ Registered(bundle_map, bundle_map') \cap vac.R = {}
             /\ st' = "vac_delete" => \A h \in DOMAIN index' : index'[h].bundle \notin vac.R]_vars

\* the rewrite loop is over after a vacuum that began with I1 and I2 holding and
\* with index entries in the rewrite set: every such entry has been redirected
C33_Witness ==
    /\ st = "vac_rewrite"
    /\ vac.todo = {}
    /\ VacuumBeganSound
    /\ \E h \in DOMAIN flushed : flushed[h].bundle \in vac.R
    /\ \A h \in DOMAIN flushed : h \in DOMAIN index /\ index[h].bundle \notin vac.R

\* an index entry resolves in a repository value r: to a chunk of a bundle
\* registered in the Bundle Map, or to a chunk of a writer that is still active
ResolvesIn(r, h) ==
    LET loc == r.index[h]
    IN  \/ /\ loc.bundle \in DOMAIN r.bm
           /\ loc.chunk < Len(r.bm[loc.bundle].chunks)
           /\ r.bm[loc.bundle].chunks[loc.chunk + 1] = h
        \/ /\ loc.bundle = r.nd /\ loc.chunk < Len(r.data) /\ r.data[loc.chunk + 1] = h
        \/ /\ loc.bundle = r.nm /\ loc.chunk < Len(r.meta) /\ r.meta[loc.chunk + 1] = h

\* the repository value after the step
RepoNext ==
    [bm |-> bundle_map', nd |-> next_data_bundle', nm |-> next_meta_bundle',
     data |-> data_bundle', meta |-> meta_bundle', index |-> index']

\* C34: when flush returns an error because add_bundle failed, the Bundle Map and
\* both watermarks are as before, and every index entry that referred to a chunk
\* of a registered bundle or of an active writer still does.
C34_FlushErrorKeepsIndexSound ==
    [][(op' = "flush_add_err" /\ nops' # nops)
          => /\ bundle_map' = bundle_map
             /\ next_data_bundle' = next_data_bundle
             /\ next_meta_bundle' = next_meta_bundle
             /\ \A h \in DOMAIN index' :
                   (h \in DOMAIN index /\ ResolvesIn(Repo, h)) => ResolvesIn(RepoNext, h)]_vars

\* C35: when open returns an error, the persisted bundles.map is the one the call
\* found: the failed open, the drop of its Repository value included, saves no
\* partly updated Bundle Map.
C35_FailedOpenKeepsMap ==
    [][(op' = "open_err" /\ nops' # nops) => map_disk' = map_disk]_vars

\* C36: when import has returned Ok, the persisted bundles.map is the Bundle Map of
\* the returned repository, with every remote bundle that open registered.
C36_ImportPersistsMap ==
    op = "import" => (map_disk = bundle_map /\ \A cid \in remote : \E id \in DOMAIN map_disk : map_disk[id] = cid)

\* the rewrite set a vacuum(ratio, combine = false) called now would select
WouldRewrite(ratio) ==
    rewrite_bundles(analyze_usage(flush(Repo)), ratio, FALSE, bundle_size)

\* C37: after vacuum(ratio, combine = false, force = true) with ratio < 1 has
\* returned Ok, the same vacuum called again at once selects an empty rewrite set.
\* Every vacuum of FixSpec has such arguments, and the set selected with ratio 0
\* is part of the set selected with any other ratio, so the statement requires
\* the set for ratio 0 to be empty.
C37_VacuumFixedPoint ==
    op = "vacuum_ok" => WouldRewrite(0) = {}


====
